---- MODULE Spec2Model ----
(***************************************************************************)
(* A model of the PyAKL execution engine (rekrevs/pyakl):                  *)
(*   - the term store, Robinson unification and the trail  (unify.py,      *)
(*     engine.py);                                                         *)
(*   - the generator-based Interpreter and the CPS Scheduler               *)
(*     (interpreter.py, scheduler.py);                                     *)
(*   - the tree-rewriting AKLWorker with and-box copying                   *)
(*     (akl_engine.py, copy.py).                                           *)
(* Terms are records tagged by k: "atom", "var" (a cell index), "str"      *)
(* (functor + argument tuple), "cons" (head/tail), and "none" for Python's *)
(* None.  A store S is a record that holds at least the cells and the      *)
(* ExState fields trail, wake and recall.                                  *)
(***************************************************************************)
EXTENDS Integers, Sequences, FiniteSets, TLC

\* The unifier under an outside caller: cells, ExState, a saved trail
\* position with the bindings at that moment, and the last call made.
VARIABLES ucells, uex, upos, usaved, ulast

\* Interpreter and Scheduler on one program and goal: the goal, query_vars,
\* the Interpreter (program, generator stack, store, and logs of the yields
\* of _try_clauses and of the guard outcomes), the solutions solve_all has
\* collected, and the list Scheduler.solve returned.
VARIABLES igoal, iqv, im, isols, ssols

\* The AKLWorker on one program and goal: the goal, the worker's heap (the
\* cells, the and-box / choice-box tree, the ExState, query_vars, solutions
\* and the logs of its =/2 goals and splits), and what solve returned.
VARIABLES wgoal, wh, wret

\* Builtins called one at a time on one ExState: the store (cells and
\* trail) and what the last call answered.
VARIABLES bs, blast

uvars == <<ucells, uex, upos, usaved, ulast>>
ivars == <<igoal, iqv, im, isols, ssols>>
wvars == <<wgoal, wh, wret>>
bvars == <<bs, blast>>
vars == <<uvars, ivars, wvars, bvars>>

\* The parts that a run of one component leaves untouched.
UIdle ==
    /\ ucells = <<>>
    /\ uex = <<>>
    /\ upos = 0
    /\ usaved = <<>>
    /\ ulast = <<>>

WIdle ==
    /\ wgoal = <<>>
    /\ wh = <<>>
    /\ wret = <<>>

BIdle ==
    /\ bs = <<>>
    /\ blast = <<>>

IIdle ==
    /\ igoal = <<>>
    /\ iqv = <<>>
    /\ im = <<>>
    /\ isols = <<>>
    /\ ssols = <<>>

\* ------------------------------------------------------------------------
\* Terms (term.py)
\* ------------------------------------------------------------------------
None == [k |-> "none"]
Atom(n) == [k |-> "atom", name |-> n]
Var(i) == [k |-> "var", id |-> i]
Struct(f, as) == [k |-> "str", f |-> f, args |-> as]
Cons(h, t) == [k |-> "cons", head |-> h, tail |-> t]
Integer(n) == [k |-> "int", value |-> n]
NIL == Atom("[]")

\* A Var / ConstrainedVar object: its binding slot, and for a ConstrainedVar
\* (con) its env and its suspension list (head first).  env 0 is "no env".
NewCell(nm, con, env) ==
    [binding |-> None, con |-> con, env |-> env, susp |-> <<>>, name |-> nm]

\* Var.deref: follow the binding chain, not the structure.
RECURSIVE deref(_, _)
deref(cells, t) ==
    IF t.k = "var" /\ cells[t.id].binding.k # "none"
    THEN deref(cells, cells[t.id].binding)
    ELSE t

\* Python's "t1 is t2" on dereferenced terms: cell identity for variables,
\* interning for atoms.  A compound is the same object only as an equal
\* value; on two equal compounds the argument-wise walk of the unifier
\* succeeds and binds nothing, so deciding them here gives the same result.
Same(t1, t2) == t1 = t2

\* ------------------------------------------------------------------------
\* ExState trail and queues (engine.py)
\* ------------------------------------------------------------------------
Susp(type, box) == [type |-> type, box |-> box]

add_suspension(S, v, s) ==
    [S EXCEPT !.cells[v].susp = <<s>> \o @]

wake_all_dup(S, v) ==
    LET susp == S.cells[v].susp
        ab == SelectSeq(susp, LAMBDA s : s.type = "ANDBOX")
        cb == SelectSeq(susp, LAMBDA s : s.type = "CHOICEBOX")
    IN [S EXCEPT !.wake = @ \o [i \in 1..Len(ab) |-> ab[i].box]
                              \o [i \in 1..Len(ab) |-> ab[i].box],
                 !.recall = @ \o [i \in 1..Len(cb) |-> cb[i].box],
                 !.cells[v].susp = <<>>]

wake_all(S, v) ==
    LET susp == S.cells[v].susp
        ab == SelectSeq(susp, LAMBDA s : s.type = "ANDBOX")
        cb == SelectSeq(susp, LAMBDA s : s.type = "CHOICEBOX")
    IN [S EXCEPT !.wake = @ \o [i \in 1..Len(ab) |-> ab[i].box],
                 !.recall = @ \o [i \in 1..Len(cb) |-> cb[i].box],
                 !.cells[v].susp = <<>>]

trail_binding(S, v, old) ==
    [S EXCEPT !.trail = Append(@, [var |-> v, old |-> old])]

trail_position(S) == Len(S.trail)

undo_trail_keep(S, to_pos) ==
    [S EXCEPT !.trail = SubSeq(@, 1, IF to_pos < Len(@) THEN to_pos ELSE Len(@))]

RECURSIVE undo_trail(_, _)
undo_trail(S, to_pos) ==
    IF Len(S.trail) > to_pos
    THEN LET e == S.trail[Len(S.trail)]
         IN undo_trail([S EXCEPT !.trail = SubSeq(@, 1, Len(@) - 1),
                                 !.cells[e.var].binding = e.old], to_pos)
    ELSE S

\* ------------------------------------------------------------------------
\* Unification (unify.py)
\* ------------------------------------------------------------------------
RECURSIVE _occurs_in(_, _, _)
_occurs_in(cells, v, term) ==
    LET t == deref(cells, term)
    IN IF t.k = "var" THEN t.id = v
       ELSE IF t.k = "str"
            THEN \E i \in 1..Len(t.args) : _occurs_in(cells, v, t.args[i])
       ELSE IF t.k = "cons"
            THEN _occurs_in(cells, v, t.head) \/ _occurs_in(cells, v, t.tail)
       ELSE FALSE

Res(ok, S) == [ok |-> ok, S |-> S]

_bind_var_untrailed(S, v, term, ex, oc) ==
    IF oc /\ _occurs_in(S.cells, v, term) THEN Res(FALSE, S)
    ELSE LET S2 == [S EXCEPT !.cells[v].binding = term]
         IN Res(TRUE, IF ex /\ S.cells[v].con THEN wake_all(S2, v) ELSE S2)

\* _bind_var(var, term, exstate, occurs_check); ex says an ExState was given.
_bind_var(S, v, term, ex, oc) ==
    IF oc /\ _occurs_in(S.cells, v, term) THEN Res(FALSE, S)
    ELSE LET S1 == IF ex THEN trail_binding(S, v, S.cells[v].binding) ELSE S
             S2 == [S1 EXCEPT !.cells[v].binding = term]
         IN Res(TRUE, IF ex /\ S.cells[v].con THEN wake_all(S2, v) ELSE S2)

RECURSIVE unify(_, _, _, _, _)
RECURSIVE _unify_args(_, _, _, _, _, _)

\* all(unify(a1, a2) for a1, a2 in zip(args1, args2)): stops at the first
\* argument pair that fails, keeping what the earlier pairs bound.
_unify_args(S, as1, as2, i, ex, oc) ==
    IF i > Len(as1) \/ i > Len(as2) THEN Res(TRUE, S)
    ELSE LET r == unify(S, as1[i], as2[i], ex, oc)
         IN IF r.ok THEN _unify_args(r.S, as1, as2, i + 1, ex, oc) ELSE r

_unify_nonvar(S, t1, t2, ex, oc) ==
    IF t1.k = "atom" THEN Res(t2.k = "atom" /\ t1.name = t2.name, S)
    ELSE IF t1.k = "int" THEN Res(t2.k = "int" /\ t1.value = t2.value, S)
    ELSE IF t1.k = "str"
         THEN IF t2.k # "str" THEN Res(FALSE, S)
              ELSE IF t1.f # t2.f \/ Len(t1.args) # Len(t2.args) THEN Res(FALSE, S)
              ELSE _unify_args(S, t1.args, t2.args, 1, ex, oc)
    ELSE IF t1.k = "cons"
         THEN IF t2.k # "cons" THEN Res(FALSE, S)
              ELSE LET r == unify(S, t1.head, t2.head, ex, oc)
                   IN IF r.ok THEN unify(r.S, t1.tail, t2.tail, ex, oc) ELSE r
    ELSE Res(FALSE, S)

unify(S, t1, t2, ex, oc) ==
    LET d1 == deref(S.cells, t1)
        d2 == deref(S.cells, t2)
    IN IF Same(d1, d2) THEN Res(TRUE, S)
       ELSE IF d1.k = "var" THEN _bind_var(S, d1.id, d2, ex, oc)
       ELSE IF d2.k = "var" THEN _bind_var(S, d2.id, d1, ex, oc)
       ELSE _unify_nonvar(S, d1, d2, ex, oc)

\* engine.bind_var(exstate, andb, var, value)
bind_var(S, var, value) ==
    LET d1 == deref(S.cells, var)
        d2 == deref(S.cells, value)
    IN IF Same(d1, d2) THEN Res(TRUE, S)
       ELSE IF d1.k # "var" THEN Res(FALSE, S)
       ELSE LET S1 == trail_binding(S, d1.id, S.cells[d1.id].binding)
                S2 == [S1 EXCEPT !.cells[d1.id].binding = d2]
            IN Res(TRUE, IF S.cells[d1.id].con THEN wake_all(S2, d1.id) ELSE S2)

\* The variables that occur in a term as written (bindings not followed).
RECURSIVE VarsIn(_)
VarsIn(t) ==
    IF t.k = "var" THEN {t.id}
    ELSE IF t.k = "str" THEN UNION {VarsIn(t.args[i]) : i \in 1..Len(t.args)}
    ELSE IF t.k = "cons" THEN VarsIn(t.head) \cup VarsIn(t.tail)
    ELSE {}

\* No cell reaches itself through bindings: the circular structures that
\* unification without occurs check can build are left out of the model.
RECURSIVE ReachVars(_, _, _)
ReachVars(cells, vs, n) ==
    IF n = 0 THEN vs
    ELSE ReachVars(cells, vs \cup UNION {VarsIn(cells[v].binding) : v \in vs}, n - 1)

Acyclic(cells) ==
    \A v \in 1..Len(cells) :
        v \notin ReachVars(cells, VarsIn(cells[v].binding), Len(cells))

\* ------------------------------------------------------------------------
\* The unifier driven by an outside caller: one ExState, a few cells, and
\* calls to unify, bind_var, add_suspension, trail_position and undo_trail.
\* ------------------------------------------------------------------------
MaxCalls == 3
MaxSusp == 2

UAtoms == {"a", "b"}
UVarIds == {1, 2}
UBoxes == {1, 2}
ULeaves == {Atom(n) : n \in UAtoms} \cup {Var(i) : i \in UVarIds}
UTerms ==
    ULeaves \cup {Struct("f", <<Var(i), Atom(n)>>) : i \in UVarIds, n \in UAtoms}
            \cup {Struct("f", <<Atom("b"), Atom("b")>>)}
            \cup {Cons(x, NIL) : x \in {Var(1), Atom("a")}}

UStore == [cells |-> ucells, trail |-> uex.trail, wake |-> uex.wake,
           recall |-> uex.recall]

Bindings(cells) == [i \in 1..Len(cells) |-> cells[i].binding]

UPut(S, op, ok, undone) ==
    /\ ucells' = S.cells
    /\ uex' = [trail |-> S.trail, wake |-> S.wake, recall |-> S.recall]
    /\ ulast' = [n |-> ulast.n + 1, op |-> op, ok |-> ok, undone |-> undone]

UInit ==
    /\ \E con \in BOOLEAN :
           ucells = <<NewCell("X", TRUE, 1), NewCell("Y", con, IF con THEN 1 ELSE 0)>>
    /\ uex = [trail |-> <<>>, wake |-> <<>>, recall |-> <<>>]
    /\ upos = 0
    /\ usaved = <<>>
    /\ ulast = [n |-> 0, op |-> "init", ok |-> TRUE, undone |-> 0]
    /\ IIdle
    /\ WIdle
    /\ BIdle

\* unify(t1, t2, exstate)
UnifyCall ==
    /\ ulast.n < MaxCalls
    /\ \E t1, t2 \in UTerms :
           LET r == unify(UStore, t1, t2, TRUE, FALSE)
           IN /\ Acyclic(r.S.cells)
              /\ UPut(r.S, "unify", r.ok, 0)
    /\ UNCHANGED <<upos, usaved, ivars, wvars, bvars>>

\* unify(var, t, exstate, occurs_check=True)
UnifyOccursCall ==
    /\ ulast.n < MaxCalls
    /\ \E i \in UVarIds, t2 \in UTerms :
           LET r == unify(UStore, Var(i), t2, TRUE, TRUE)
           IN UPut(r.S, "unify", r.ok, 0)
    /\ UNCHANGED <<upos, usaved, ivars, wvars, bvars>>

\* bind_var(exstate, andb, var, value)
BindVarCall ==
    /\ ulast.n < MaxCalls
    /\ \E t1 \in ULeaves, t2 \in ULeaves :
           LET r == bind_var(UStore, t1, t2)
           IN /\ Acyclic(r.S.cells)
              /\ UPut(r.S, "bind_var", r.ok, 0)
    /\ UNCHANGED <<upos, usaved, ivars, wvars, bvars>>

\* ConstrainedVar.add_suspension(Suspension.for_andbox / for_choicebox)
AddSuspension ==
    /\ ulast.n < MaxCalls
    /\ \E v \in UVarIds, ty \in {"ANDBOX", "CHOICEBOX"}, b \in UBoxes :
           /\ ucells[v].con
           /\ Len(ucells[v].susp) < MaxSusp
           /\ UPut(add_suspension(UStore, v, Susp(ty, b)), "suspend", TRUE, 0)
    /\ UNCHANGED <<upos, usaved, ivars, wvars, bvars>>

\* can_unify: unify on a temporary ExState, then temp_exstate.undo_trail()
can_unify(S, t1, t2) ==
    LET r == unify([S EXCEPT !.trail = <<>>, !.wake = <<>>, !.recall = <<>>],
                   t1, t2, TRUE, FALSE)
    IN Res(r.ok, [S EXCEPT !.cells = undo_trail(r.S, 0).cells])

\* \=/2: pos = exstate.trail_position(); unify; exstate.undo_trail(pos)
builtin_not_unify(S, args) ==
    LET pos == trail_position(S)
        r == unify(S, args[1], args[2], TRUE, FALSE)
    IN Res(~r.ok, undo_trail(r.S, pos))

\* can_unify(t1, t2)
CanUnifyCall ==
    /\ ulast.n < MaxCalls
    /\ \E i \in UVarIds, t2 \in UTerms :
           LET r == can_unify(UStore, Var(i), t2)
           IN /\ Acyclic(r.S.cells)
              /\ UPut(r.S, "can_unify", r.ok, 0)
    /\ UNCHANGED <<upos, usaved, ivars, wvars, bvars>>

\* call_builtin("\\=", 2, exstate, andb, (t1, t2))
NotUnifyCall ==
    /\ ulast.n < MaxCalls
    /\ \E i \in UVarIds, t2 \in UTerms :
           LET r == builtin_not_unify(UStore, <<Var(i), t2>>)
           IN /\ Acyclic(r.S.cells)
              /\ UPut(r.S, "not_unify", r.ok, 0)
    /\ UNCHANGED <<upos, usaved, ivars, wvars, bvars>>

\* pos = exstate.trail_position()
TrailPosition ==
    /\ ulast.n < MaxCalls
    /\ upos' = trail_position(UStore)
    /\ usaved' = Bindings(ucells)
    /\ ulast' = [ulast EXCEPT !.n = @ + 1, !.op = "position"]
    /\ UNCHANGED <<ucells, uex, ivars, wvars, bvars>>

\* exstate.undo_trail(pos), pos taken earlier on this ExState
UndoTrail ==
    /\ usaved # <<>>
    /\ ulast.op # "undo"
    /\ UPut(undo_trail(UStore, upos), "undo", TRUE, Len(uex.trail) - upos)
    /\ UNCHANGED <<upos, usaved, ivars, wvars, bvars>>

UNext ==
    \/ UnifyCall
    \/ UnifyOccursCall
    \/ BindVarCall
    \/ AddSuspension
    \/ TrailPosition
    \/ UndoTrail

SpecU == UInit /\ [][UNext]_vars

\* The two tests among calls that bind and suspend
TNext ==
    \/ BindVarCall
    \/ AddSuspension
    \/ CanUnifyCall
    \/ NotUnifyCall

SpecT == UInit /\ [][TNext]_vars

\* ------------------------------------------------------------------------
\* Properties of the unifier and the trail
\* ------------------------------------------------------------------------
\* The trail entries a step pushed, oldest first.
Pushed == SubSeq(uex'.trail, Len(uex.trail) + 1, Len(uex'.trail))

\* The and-boxes (choice-boxes) suspended on v, in suspension-list order.
BoxesOf(cells, v, ty) ==
    LET xs == SelectSeq(cells[v].susp, LAMBDA s : s.type = ty)
    IN [i \in 1..Len(xs) |-> xs[i].box]

RECURSIVE Scheduled(_, _, _, _)
Scheduled(cells, es, ty, i) ==
    IF i > Len(es) THEN <<>>
    ELSE BoxesOf(cells, es[i].var, ty) \o Scheduled(cells, es, ty, i + 1)

\* C1: a call of unify that returns false leaves every binding as it was
\* before the call (no net binding), also when a later argument mismatches
\* after an earlier argument bound a variable.
C1_FailedUnifyNoNetBinding ==
    [][(ulast'.n # ulast.n /\ ulast'.op = "unify" /\ ~ulast'.ok)
          => Bindings(ucells') = Bindings(ucells)]_vars

\* C2: after pos = trail_position(), any sequence of unify / bind_var calls
\* followed by undo_trail(pos) restores every binding to its value at the
\* snapshot and brings the trail length back to pos.
C2_TrailSymmetry ==
    ulast.op = "undo" =>
        /\ Bindings(ucells) = usaved
        /\ Len(uex.trail) = upos

C2_Witness ==
    /\ ulast.op = "undo"
    /\ ulast.undone >= 1
    /\ upos >= 1
    /\ \E v \in UVarIds : ucells[v].binding.k # "none"
    /\ \E v \in UVarIds : ucells[v].binding.k = "none"

\* C3: a unify / bind_var call with an ExState pushes, for each variable it
\* binds, exactly one trail entry (cell, previous binding); every and-box
\* suspended on a bound cell is appended to the wake queue and every
\* choice-box to the recall queue, once per suspension, and the cell's
\* suspension list is left empty; no other cell changes.
C3_BindTrailsAndWakes ==
    [][(ulast'.n # ulast.n /\ ulast'.op \in {"unify", "bind_var"}) =>
          /\ Len(uex'.trail) >= Len(uex.trail)
          /\ SubSeq(uex'.trail, 1, Len(uex.trail)) = uex.trail
          /\ \A i \in 1..Len(Pushed) :
                 /\ Pushed[i].old = ucells[Pushed[i].var].binding
                 /\ ucells'[Pushed[i].var].binding # ucells[Pushed[i].var].binding
                 /\ ucells'[Pushed[i].var].susp = <<>>
                 /\ \A j \in 1..Len(Pushed) : Pushed[j].var = Pushed[i].var => j = i
          /\ \A v \in UVarIds :
                 (\A i \in 1..Len(Pushed) : Pushed[i].var # v) => ucells'[v] = ucells[v]
          /\ uex'.wake = uex.wake \o Scheduled(ucells, Pushed, "ANDBOX", 1)
          /\ uex'.recall = uex.recall \o Scheduled(ucells, Pushed, "CHOICEBOX", 1)
      ]_vars

\* A state a binding call has just reached, in which an and-box and a
\* choice-box were scheduled and the suspension lists are empty again.
C3_Witness ==
    /\ ulast.op \in {"unify", "bind_var"}
    /\ ulast.ok
    /\ Len(uex.trail) >= 1
    /\ Len(uex.wake) >= 1
    /\ Len(uex.recall) >= 1
    /\ \A v \in UVarIds : ucells[v].susp = <<>>

\* ------------------------------------------------------------------------
\* Programs, clauses and goals (program.py, builtin.py)
\* ------------------------------------------------------------------------
\* A variable of a clause as parsed: it is never bound, only renamed apart.
TV(n) == [k |-> "tv", name |-> n]

IsStr(t, f, n) == t.k = "str" /\ t.f = f /\ Len(t.args) = n

Clause(head, guard, gt, body) ==
    [head |-> head, guard |-> guard, guard_type |-> gt, body |-> body]

Fact(head) == Clause(head, None, "NONE", <<>>)

QUIET_GUARDS == {"ARROW", "COMMIT", "QUIET_WAIT"}
PRUNING_GUARDS == {"ARROW", "COMMIT", "CUT"}

\* Clause.functor and Clause.arity
ClauseKey(c) ==
    IF c.head.k = "atom" THEN <<c.head.name, 0>>
    ELSE <<c.head.f, Len(c.head.args)>>

get_clauses_reversed(prog, name, arity) ==
    LET cs == SelectSeq(prog, LAMBDA c : ClauseKey(c) = <<name, arity>>)
    IN [i \in 1..Len(cs) |-> cs[Len(cs) + 1 - i]]

get_clauses(prog, name, arity) ==
    SelectSeq(prog, LAMBDA c : ClauseKey(c) = <<name, arity>>)

is_builtin(name, arity) ==
    <<name, arity>> \in {<<"true", 0>>, <<"fail", 0>>, <<"false", 0>>, <<"=", 2>>}

\* call_builtin for true/0, fail/0, false/0 and =/2
call_builtin(S, name, arity, args) ==
    IF name = "true" THEN Res(TRUE, S)
    ELSE IF name = "=" THEN unify(S, args[1], args[2], TRUE, FALSE)
    ELSE Res(FALSE, S)

\* EnvId.is_ancestor_of; envs[e] is the parent of e, 0 is None.
RECURSIVE is_ancestor_of(_, _, _)
is_ancestor_of(envs, self, other) ==
    IF other = 0 THEN FALSE
    ELSE IF other = self THEN TRUE
    ELSE is_ancestor_of(envs, self, envs[other])

\* copy_with_fresh_vars inside _copy_clause_with_env / Scheduler._copy_clause:
\* C carries the cells and var_map; the result adds the copied term t.
RECURSIVE copy_with_fresh_vars(_, _, _)
RECURSIVE CopyArgs(_, _, _, _)

CopyArgs(as, i, C, env) ==
    IF i > Len(as) THEN C
    ELSE LET r == copy_with_fresh_vars(as[i], C, env)
         IN CopyArgs(as, i + 1, [r EXCEPT !.t = Append(C.t, r.t)], env)

copy_with_fresh_vars(term, C, env) ==
    IF term.k = "tv"
    THEN IF term.name = "_"
         THEN [C EXCEPT !.t = Var(Len(C.cells) + 1),
                        !.cells = Append(@, NewCell("_G", TRUE, env))]
         ELSE IF term.name \in DOMAIN C.map
              THEN [C EXCEPT !.t = Var(C.map[term.name])]
              ELSE [C EXCEPT !.t = Var(Len(C.cells) + 1),
                             !.cells = Append(@, NewCell(term.name, TRUE, env)),
                             !.map = (term.name :> (Len(C.cells) + 1)) @@ @]
    ELSE IF term.k = "str"
         THEN LET r == CopyArgs(term.args, 1, [C EXCEPT !.t = <<>>], env)
              IN [r EXCEPT !.t = Struct(term.f, r.t)]
    ELSE IF term.k = "cons"
         THEN LET h == copy_with_fresh_vars(term.head, C, env)
                  t == copy_with_fresh_vars(term.tail, h, env)
              IN [t EXCEPT !.t = Cons(h.t, t.t)]
    ELSE [C EXCEPT !.t = term]

\* The fresh (head, guard, body) of a clause and the cells it allocated.
_copy_clause_with_env(clause, cells, env) ==
    LET C0 == [t |-> None, cells |-> cells, map |-> [x \in {} |-> 0]]
        h == copy_with_fresh_vars(clause.head, C0, env)
        g == IF clause.guard = None THEN h
             ELSE copy_with_fresh_vars(clause.guard, h, env)
        b == CopyArgs(clause.body, 1, [g EXCEPT !.t = <<>>], env)
    IN [head |-> h.t,
        guard |-> IF clause.guard = None THEN None ELSE g.t,
        body |-> b.t,
        cells |-> b.cells]

RECURSIVE _goals_to_conjunction(_)
_goals_to_conjunction(goals) ==
    IF goals = <<>> THEN Atom("true")
    ELSE IF Len(goals) = 1 THEN goals[1]
    ELSE Struct(",", <<goals[1], _goals_to_conjunction(Tail(goals))>>)

\* ground_copy: the value with all bindings followed.  A variable left
\* unbound is kept under its name, as a solution shows it.
RECURSIVE ground_copy(_, _)
ground_copy(cells, term) ==
    LET t == deref(cells, term)
    IN IF t.k = "var" THEN [k |-> "var", name |-> cells[t.id].name]
       ELSE IF t.k = "str"
            THEN Struct(t.f, [i \in 1..Len(t.args) |-> ground_copy(cells, t.args[i])])
       ELSE IF t.k = "cons"
            THEN Cons(ground_copy(cells, t.head), ground_copy(cells, t.tail))
       ELSE t

\* _get_solution / _record_solution: the bound query variables by name.
_get_solution(cells, qv) ==
    LET bound == {i \in 1..Len(qv) : deref(cells, Var(qv[i].id)) # Var(qv[i].id)}
    IN {[name |-> qv[i].name, value |-> ground_copy(cells, Var(qv[i].id))] : i \in bound}

\* ------------------------------------------------------------------------
\* The Interpreter (interpreter.py).  Its generators are frames on a stack:
\* frame i was created by frame stk[i].par (0 is solve), every generator a
\* frame has running sits above it, and a generator that is dropped goes
\* with the truncation of the stack.  M.sig says what happens next at frame
\* M.at: "start" (first next()), "resume" (a later next()), "yield" (its
\* running generator yielded M.val) or "done" (that generator returned).
\* ------------------------------------------------------------------------
Frame(goal, par) == [k |-> "exec", goal |-> goal, par |-> par]

SetF(M, i, f) == [M EXCEPT !.stk[i] = f]

\* for _ in self._execute(goal): create the generator and ask for a value
Call(M, i, goal) ==
    [M EXCEPT !.stk = Append(@, Frame(goal, i)),
              !.sig = "start", !.at = Len(M.stk) + 1]

\* next() on the generator at frame j
Resume(M, j) == [M EXCEPT !.sig = "resume", !.at = j]

\* yield v
Yield(M, i, v) == [M EXCEPT !.sig = "yield", !.at = M.stk[i].par, !.val = v]

\* return: the generator of frame i and all it holds are gone
Return(M, i) ==
    [M EXCEPT !.stk = SubSeq(@, 1, i - 1), !.sig = "done", !.at = M.stk[i].par]

\* break / return out of a for loop: the generators above frame i are dropped
Drop(M, i) == [M EXCEPT !.stk = SubSeq(@, 1, i)]

_execute_builtin(M, i) ==
    LET f == M.stk[i]
    IN IF M.sig = "start"
       THEN LET r == call_builtin(M.S, f.name, Len(f.args), f.args)
            IN IF r.ok THEN Yield([M EXCEPT !.S = r.S], i, FALSE)
               ELSE Return([M EXCEPT !.S = r.S], i)
       ELSE Return(M, i)

_execute_conjunction(M, i) ==
    LET f == M.stk[i]
    IN IF M.sig = "start" THEN Call(SetF(M, i, [f EXCEPT !.pc = "L"]), i, f.left)
       ELSE IF M.sig = "yield"
            THEN IF f.pc = "L"
                 THEN Call(SetF(M, i, [f EXCEPT !.pc = "R", !.mark = Len(M.stk)]), i, f.right)
                 ELSE Yield(M, i, FALSE)
       ELSE IF M.sig = "resume" THEN Resume(M, f.mark + 1)
       ELSE IF f.pc = "R" THEN Resume(SetF(M, i, [f EXCEPT !.pc = "L"]), i + 1)
       ELSE Return(M, i)

_execute_disjunction(M, i) ==
    LET f == M.stk[i]
        undone == [M EXCEPT !.S = undo_trail(M.S, f.trail_pos)]
    IN IF M.sig = "start"
       THEN Call(SetF(M, i, [f EXCEPT !.pc = "L", !.trail_pos = trail_position(M.S)]),
                 i, f.left)
       ELSE IF M.sig = "yield" THEN Yield(M, i, FALSE)
       ELSE IF M.sig = "resume" THEN Resume(undone, i + 1)
       ELSE IF f.pc = "L" THEN Call(SetF(undone, i, [f EXCEPT !.pc = "R"]), i, f.right)
       ELSE Return(M, i)

\* What nlog keeps of a negation that has its answer: whether the goal had
\* a solution, and the cells that were bound at that moment and had not
\* been when the negation started.
NegationAnswered(M, f) ==
    [solved |-> M.sig = "yield",
     bound |-> {v \in 1..Len(f.before) : M.S.cells[v].binding # f.before[v].binding}]

\* A negation that leaves the bindings of its goal in place
_execute_negation_keeping(M, i) ==
    LET f == M.stk[i]
        kept == [M EXCEPT !.nlog = Append(@, NegationAnswered(M, f))]
    IN IF M.sig = "start"
       THEN Call(SetF(M, i, [f EXCEPT !.pc = "G", !.trail_pos = trail_position(M.S),
                                      !.before = M.S.cells]),
                 i, f.left)
       ELSE IF M.sig = "yield" THEN Return(kept, i)
       ELSE IF M.sig = "done" THEN Yield(SetF(kept, i, [f EXCEPT !.pc = "Y"]), i, FALSE)
       ELSE Return(M, i)

_execute_negation(M, i) ==
    LET f == M.stk[i]
        undone == [M EXCEPT !.S = undo_trail(M.S, f.trail_pos),
                            !.nlog = Append(@, NegationAnswered(M, f))]
    IN IF M.sig = "start"
       THEN Call(SetF(M, i, [f EXCEPT !.pc = "G", !.trail_pos = trail_position(M.S),
                                      !.before = M.S.cells]),
                 i, f.left)
       ELSE IF M.sig = "yield" THEN Return(undone, i)
       ELSE IF M.sig = "done" THEN Yield(SetF(undone, i, [f EXCEPT !.pc = "Y"]), i, FALSE)
       ELSE Return(M, i)

\* What ilog keeps of an if-then-else whose condition has its answer: the
\* branch taken and the cells that were bound at that moment and had not
\* been when the if-then-else started.
ConditionAnswered(M, f, branch) ==
    [M EXCEPT !.ilog = Append(@, [branch |-> branch,
         bound |-> {v \in 1..Len(f.before) : M.S.cells[v].binding # f.before[v].binding}])]

\* An if-then-else that goes on to Else when Then is exhausted
_execute_if_then_else_falling(M, i) ==
    LET f == M.stk[i]
    IN IF M.sig = "start"
       THEN Call(SetF(M, i, [f EXCEPT !.pc = "C", !.trail_pos = trail_position(M.S),
                                      !.before = M.S.cells]),
                 i, f.cond)
       ELSE IF M.sig = "yield"
            THEN IF f.pc = "C"
                 THEN Call(Drop(SetF(ConditionAnswered(M, f, "then"), i, [f EXCEPT !.pc = "T"]), i), i, f.left)
                 ELSE Yield(M, i, FALSE)
       ELSE IF M.sig = "resume" THEN Resume(M, i + 1)
       ELSE IF f.pc \in {"C", "T"}
            THEN Call(SetF([ConditionAnswered(M, f, "else") EXCEPT !.S = undo_trail(M.S, f.trail_pos)], i,
                           [f EXCEPT !.pc = "E"]), i, f.right)
       ELSE Return(M, i)

_execute_if_then_else(M, i) ==
    LET f == M.stk[i]
    IN IF M.sig = "start"
       THEN Call(SetF(M, i, [f EXCEPT !.pc = "C", !.trail_pos = trail_position(M.S),
                                      !.before = M.S.cells]),
                 i, f.cond)
       ELSE IF M.sig = "yield"
            THEN IF f.pc = "C"
                 THEN Call(Drop(SetF(ConditionAnswered(M, f, "then"), i, [f EXCEPT !.pc = "T"]), i), i, f.left)
                 ELSE Yield(M, i, FALSE)
       ELSE IF M.sig = "resume" THEN Resume(M, i + 1)
       ELSE IF f.pc = "C"
            THEN Call(SetF([ConditionAnswered(M, f, "else") EXCEPT !.S = undo_trail(M.S, f.trail_pos)], i,
                           [f EXCEPT !.pc = "E"]), i, f.right)
       ELSE Return(M, i)

\* for result in self._try_clause(goal, clause)
CallClause(M, i, goal, clause) ==
    [M EXCEPT !.stk = Append(@, [k |-> "clause", par |-> i, goal |-> goal,
                                 clause |-> clause, pc |-> "S", trail_pos |-> 0,
                                 parent_andb |-> 0, clause_andb |-> 0,
                                 guard_trail |-> 0, snapshot |-> <<>>,
                                 body |-> <<>>, ext |-> {}, pre |-> {}]),
              !.sig = "start", !.at = Len(M.stk) + 1]

\* What clog keeps of a call: each clause _try_clauses hands to _try_clause,
\* and each guard solution _try_clause accepts.
Tried(call, idx) ==
    [e |-> "try", call |-> call, idx |-> idx, guard_type |-> "NONE"]

GuardAccepted(M, f) ==
    [e |-> "guard", call |-> M.stk[f.par].call, idx |-> M.stk[f.par].idx,
     guard_type |-> f.clause.guard_type]

\* A yield of _try_clauses as the log keeps it: which call, through which
\* clause, and whether the clause signalled pruning.
Yielded(call, idx, pruning) == [call |-> call, idx |-> idx, pruning |-> pruning]

_try_clauses_no_commit(M, i) ==
    LET f == M.stk[i]
    IN IF M.sig = "start"
       THEN CallClause([M EXCEPT !.ncall = @ + 1, !.clog = Append(@, Tried(f.call, 1))],
                       i, f.goal, f.clauses[1])
       ELSE IF M.sig = "yield"
            THEN Yield([SetF(M, i, [f EXCEPT !.pc = IF M.val THEN "ret" ELSE "loop"])
                           EXCEPT !.log = Append(@, Yielded(f.call, f.idx, M.val))],
                       i, FALSE)
       ELSE IF M.sig = "resume" THEN Resume(M, i + 1)
       ELSE IF f.idx < Len(f.clauses)
            THEN CallClause([SetF(M, i, [f EXCEPT !.idx = @ + 1])
                                EXCEPT !.clog = Append(@, Tried(f.call, f.idx + 1))],
                            i, f.goal, f.clauses[f.idx + 1])
       ELSE Return(M, i)

_try_clauses(M, i) ==
    LET f == M.stk[i]
    IN IF M.sig = "start"
       THEN CallClause([M EXCEPT !.ncall = @ + 1, !.clog = Append(@, Tried(f.call, 1))],
                       i, f.goal, f.clauses[1])
       ELSE IF M.sig = "yield"
            THEN Yield([SetF(M, i, [f EXCEPT !.pc = IF M.val THEN "ret" ELSE "loop"])
                           EXCEPT !.log = Append(@, Yielded(f.call, f.idx, M.val))],
                       i, FALSE)
       ELSE IF M.sig = "resume"
            THEN IF f.pc = "ret" THEN Return(M, i) ELSE Resume(M, i + 1)
       ELSE IF f.idx < Len(f.clauses)
            THEN CallClause([SetF(M, i, [f EXCEPT !.idx = @ + 1])
                                EXCEPT !.clog = Append(@, Tried(f.call, f.idx + 1))],
                            i, f.goal, f.clauses[f.idx + 1])
       ELSE Return(M, i)

_is_var_external(S, v, local_env) ==
    IF S.cells[v].con
    THEN IF S.cells[v].env = 0 THEN TRUE
         ELSE IF S.cells[v].env # local_env
              THEN is_ancestor_of(S.envs, S.cells[v].env, local_env)
         ELSE FALSE
    ELSE TRUE

\* The variables of a term and of the bindings of those variables.
_collect_vars_no_deref(cells, term) == ReachVars(cells, VarsIn(term), Len(cells))

_snapshot_externals(S, goal, local_env) ==
    LET external_vars == {v \in _collect_vars_no_deref(S.cells, goal) :
                              _is_var_external(S, v, local_env)}
    IN [v \in external_vars |-> deref(S.cells, Var(v))]

\* whether the list of changes is non-empty
_check_external_changes(S, snapshot) ==
    \E v \in DOMAIN snapshot :
        /\ snapshot[v].k = "var"
        /\ deref(S.cells, snapshot[v]) # snapshot[v]

\* The cells reachable from the call goal that are not local to the clause's
\* and-box, and those of them that stand for a non-variable value.
ExternalCells(S, goal, local_env) ==
    {v \in _collect_vars_no_deref(S.cells, goal) : S.cells[v].env # local_env}

BoundCells(S, vs) == {v \in vs : deref(S.cells, Var(v)).k # "var"}

\* A guard outcome as the log keeps it.
GuardOutcome(f, S, accepted) ==
    [guard_type |-> f.clause.guard_type, accepted |-> accepted,
     pre |-> f.pre, post |-> BoundCells(S, f.ext)]

\* _try_clause from "Execute body goals" on (lines 381-396)
TryClauseBody(M, i) ==
    LET f == M.stk[i]
        is_pruning_guard == f.clause.guard_type \in PRUNING_GUARDS
    IN IF f.body # <<>>
       THEN Call(SetF(M, i, [f EXCEPT !.pc = "B"]), i, _goals_to_conjunction(f.body))
       ELSE Yield([SetF(M, i, [f EXCEPT !.pc = "F"]) EXCEPT !.S.cur = f.parent_andb],
                  i, is_pruning_guard)

\* _try_clause up to the guard (lines 310-355)
TryClauseStart(M, i) ==
    LET f == M.stk[i]
        trail_pos == trail_position(M.S)
        parent_andb == M.S.cur
        clause_andb == Len(M.S.envs) + 1
        fresh == _copy_clause_with_env(f.clause, M.S.cells, clause_andb)
        S1 == [M.S EXCEPT !.envs = Append(@, parent_andb), !.cur = clause_andb,
                          !.cells = fresh.cells]
        r == unify(S1, f.goal, fresh.head, TRUE, FALSE)
        is_quiet_guard == f.clause.guard_type \in QUIET_GUARDS
        ext == ExternalCells(r.S, f.goal, clause_andb)
        f1 == [f EXCEPT !.trail_pos = trail_pos, !.parent_andb = parent_andb,
                        !.clause_andb = clause_andb, !.body = fresh.body,
                        !.guard_trail = trail_position(r.S),
                        !.snapshot = IF is_quiet_guard /\ fresh.guard # None
                                     THEN _snapshot_externals(r.S, f.goal, clause_andb)
                                     ELSE <<>>,
                        !.ext = ext, !.pre = BoundCells(r.S, ext)]
    IN IF ~r.ok
       THEN Return([M EXCEPT !.S = [undo_trail(r.S, trail_pos) EXCEPT !.cur = parent_andb]], i)
       ELSE IF fresh.guard # None
            THEN Call(SetF([M EXCEPT !.S = r.S], i, [f1 EXCEPT !.pc = "G"]), i, fresh.guard)
       ELSE TryClauseBody(SetF([M EXCEPT !.S = r.S], i, f1), i)

_try_clause(M, i) ==
    LET f == M.stk[i]
        is_quiet_guard == f.clause.guard_type \in QUIET_GUARDS
        backtracked == [M EXCEPT !.S = [undo_trail(M.S, f.trail_pos)
                                           EXCEPT !.cur = f.parent_andb]]
    IN IF M.sig = "start" THEN TryClauseStart(M, i)
       ELSE IF M.sig = "yield"
            THEN IF f.pc = "G"
                 THEN IF is_quiet_guard /\ _check_external_changes(M.S, f.snapshot)
                      THEN LET S1 == undo_trail(M.S, f.guard_trail)
                           IN Resume([M EXCEPT !.S = S1,
                                               !.glog = Append(@, GuardOutcome(f, S1, FALSE))],
                                     i + 1)
                      ELSE TryClauseBody(
                               Drop([M EXCEPT !.glog = Append(@, GuardOutcome(f, M.S, TRUE)),
                                        !.clog = Append(@, GuardAccepted(M, f))],
                                    i), i)
                 ELSE Yield([M EXCEPT !.S.cur = f.parent_andb], i,
                            f.clause.guard_type \in PRUNING_GUARDS)
       ELSE IF M.sig = "resume"
            THEN IF f.pc = "B" THEN Resume([M EXCEPT !.S.cur = f.clause_andb], i + 1)
                 ELSE Return(backtracked, i)
       ELSE Return(backtracked, i)

\* _execute: the dispatch on the goal and the start of what it delegates to
_execute(M, i) ==
    LET par == M.stk[i].par
        goal == deref(M.S.cells, M.stk[i].goal)
        name == IF goal.k = "atom" THEN goal.name ELSE goal.f
        args == IF goal.k = "atom" THEN <<>> ELSE goal.args
        clauses == get_clauses(M.prog, name, Len(args))
    IN IF IsStr(goal, ",", 2)
       THEN _execute_conjunction(
                SetF(M, i, [k |-> "conj", par |-> par, left |-> goal.args[1],
                            right |-> goal.args[2], pc |-> "S", mark |-> 0]), i)
       ELSE IF IsStr(goal, ";", 2) /\ IsStr(goal.args[1], "->", 2)
            THEN _execute_if_then_else(
                     SetF(M, i, [k |-> "ite", par |-> par, cond |-> goal.args[1].args[1],
                                 left |-> goal.args[1].args[2], right |-> goal.args[2],
                                 pc |-> "S", trail_pos |-> 0, before |-> <<>>]), i)
       ELSE IF IsStr(goal, ";", 2)
            THEN _execute_disjunction(
                     SetF(M, i, [k |-> "disj", par |-> par, left |-> goal.args[1],
                                 right |-> goal.args[2], pc |-> "S", trail_pos |-> 0]), i)
       ELSE IF IsStr(goal, "\\+", 1) \/ IsStr(goal, "not", 1)
            THEN _execute_negation(
                     SetF(M, i, [k |-> "neg", par |-> par, left |-> goal.args[1],
                                 pc |-> "S", trail_pos |-> 0, before |-> <<>>]), i)
       ELSE IF is_builtin(name, Len(args))
            THEN _execute_builtin(
                     SetF(M, i, [k |-> "builtin", par |-> par, name |-> name,
                                 args |-> args]), i)
       ELSE IF clauses = <<>> THEN Return(M, i)
       ELSE _try_clauses(
                SetF(M, i, [k |-> "clauses", par |-> par, goal |-> goal,
                            clauses |-> clauses, idx |-> 1, pc |-> "S",
                            call |-> M.ncall + 1]), i)

\* ------------------------------------------------------------------------
\* The Scheduler (scheduler.py): plain recursion over goal lists.  SS is the
\* Scheduler object: its store S, program, query_vars, solutions, _in_guard.
\* ------------------------------------------------------------------------
SRes(ok, SS) == [ok |-> ok, SS |-> SS]

Scheduler_record_solution(SS) ==
    [SS EXCEPT !.solutions = Append(@, _get_solution(SS.S.cells, SS.query_vars))]

Scheduler_snapshot_query_vars(SS) ==
    [i \in 1..Len(SS.query_vars) |->
        LET var == Var(SS.query_vars[i].id)
            val == deref(SS.S.cells, var)
        IN IF val # var THEN val ELSE None]

Scheduler_query_vars_changed(SS, snapshot) ==
    \E i \in DOMAIN snapshot :
        /\ snapshot[i] = None
        /\ deref(SS.S.cells, Var(SS.query_vars[i].id)) # Var(SS.query_vars[i].id)

\* Scheduler._copy_clause(clause, None): a fresh EnvId without parent
Scheduler_copy_clause(clause, S) ==
    _copy_clause_with_env(clause, S.cells, Len(S.envs) + 1)

RECURSIVE Scheduler_try_goals(_, _)
RECURSIVE Scheduler_try_goal(_, _, _)
RECURSIVE Scheduler_try_clauses(_, _, _, _, _, _)
RECURSIVE Scheduler_try_disjunction(_, _, _, _)
RECURSIVE Scheduler_try_if_then_else(_, _, _, _, _)
RECURSIVE Scheduler_try_negation(_, _, _)

Scheduler_try_goals(SS, goals) ==
    IF goals = <<>>
    THEN SRes(TRUE, IF ~SS.in_guard THEN Scheduler_record_solution(SS) ELSE SS)
    ELSE Scheduler_try_goal(SS, Head(goals), Tail(goals))

\* The loop of Scheduler._try_clauses from clause i on; found is found_solution.
Scheduler_try_clauses(SS, goal, clauses, i, continuation, found) ==
    IF i > Len(clauses) THEN SRes(found, SS)
    ELSE
      LET clause == clauses[i]
          trail_pos == trail_position(SS.S)
          fresh == Scheduler_copy_clause(clause, SS.S)
          r == unify([SS.S EXCEPT !.cells = fresh.cells, !.envs = Append(@, 0)],
                     goal, fresh.head, TRUE, FALSE)
          SS1 == [SS EXCEPT !.S = r.S]
          is_quiet == clause.guard_type \in QUIET_GUARDS
          external_snapshot == IF is_quiet THEN Scheduler_snapshot_query_vars(SS1) ELSE <<>>
          guard_trail == trail_position(r.S)
          g == Scheduler_try_goals([SS1 EXCEPT !.in_guard = TRUE], <<fresh.guard>>)
          gSS == [g.SS EXCEPT !.in_guard = FALSE]
          rejected == g.ok /\ is_quiet /\ Scheduler_query_vars_changed(gSS, external_snapshot)
          SS2 == IF fresh.guard = None THEN SS1
                 ELSE IF rejected THEN [gSS EXCEPT !.S = undo_trail(@, guard_trail)]
                 ELSE gSS
          guard_succeeded == fresh.guard = None \/ (g.ok /\ ~rejected)
          b == Scheduler_try_goals(SS2, fresh.body \o continuation)
      IN IF ~r.ok
         THEN Scheduler_try_clauses([SS1 EXCEPT !.S = undo_trail(@, trail_pos)],
                                    goal, clauses, i + 1, continuation, found)
         ELSE IF ~guard_succeeded
         THEN Scheduler_try_clauses([SS2 EXCEPT !.S = undo_trail(@, trail_pos)],
                                    goal, clauses, i + 1, continuation, found)
         ELSE IF b.ok /\ clause.guard_type \in PRUNING_GUARDS
         THEN SRes(TRUE, [b.SS EXCEPT !.S = undo_trail(@, trail_pos)])
         ELSE Scheduler_try_clauses([b.SS EXCEPT !.S = undo_trail(@, trail_pos)],
                                    goal, clauses, i + 1, continuation, found \/ b.ok)

Scheduler_try_goal(SS, goal0, continuation) ==
    LET goal == deref(SS.S.cells, goal0)
        name == IF goal.k = "atom" THEN goal.name ELSE goal.f
        args == IF goal.k = "atom" THEN <<>> ELSE goal.args
        clauses == get_clauses(SS.program, name, Len(args))
        r == call_builtin(SS.S, name, Len(args), args)
    IN IF IsStr(goal, ",", 2)
       THEN Scheduler_try_goals(SS, <<goal.args[1], goal.args[2]>> \o continuation)
       ELSE IF IsStr(goal, ";", 2)
            THEN IF IsStr(goal.args[1], "->", 2)
                 THEN Scheduler_try_if_then_else(SS, goal.args[1].args[1],
                                                 goal.args[1].args[2], goal.args[2],
                                                 continuation)
                 ELSE Scheduler_try_disjunction(SS, goal.args[1], goal.args[2], continuation)
       ELSE IF IsStr(goal, "\\+", 1) \/ IsStr(goal, "not", 1)
            THEN Scheduler_try_negation(SS, goal.args[1], continuation)
       ELSE IF is_builtin(name, Len(args))
            THEN IF r.ok THEN Scheduler_try_goals([SS EXCEPT !.S = r.S], continuation)
                 ELSE SRes(FALSE, [SS EXCEPT !.S = r.S])
       ELSE IF clauses = <<>> THEN SRes(FALSE, SS)
       ELSE Scheduler_try_clauses(SS, goal, clauses, 1, continuation, FALSE)

Scheduler_try_disjunction(SS, left, right, continuation) ==
    LET trail_pos == trail_position(SS.S)
        l == Scheduler_try_goals(SS, <<left>> \o continuation)
        r == Scheduler_try_goals([l.SS EXCEPT !.S = undo_trail(@, trail_pos)],
                                 <<right>> \o continuation)
    IN SRes(l.ok \/ r.ok, [r.SS EXCEPT !.S = undo_trail(@, trail_pos)])

Scheduler_try_if_then_else(SS, cond, then, else_, continuation) ==
    LET trail_pos == trail_position(SS.S)
        c == Scheduler_try_goals([SS EXCEPT !.in_guard = TRUE], <<cond>>)
        cSS == [c.SS EXCEPT !.in_guard = SS.in_guard]
    IN IF c.ok THEN Scheduler_try_goals(cSS, <<then>> \o continuation)
       ELSE Scheduler_try_goals([cSS EXCEPT !.S = undo_trail(@, trail_pos)],
                                <<else_>> \o continuation)

Scheduler_try_negation(SS, goal, continuation) ==
    LET trail_pos == trail_position(SS.S)
        g == Scheduler_try_goals([SS EXCEPT !.in_guard = TRUE], <<goal>>)
        gSS == [g.SS EXCEPT !.in_guard = SS.in_guard, !.S = undo_trail(@, trail_pos)]
    IN IF g.ok THEN SRes(FALSE, gSS)
       ELSE Scheduler_try_goals(gSS, continuation)

\* Scheduler.solve(goal) from a fresh ExState S0 holding the query variables
Scheduler_solve(prog, goal, qv, S0) ==
    Scheduler_try_goals([S |-> S0, program |-> prog, query_vars |-> qv,
                         solutions |-> <<>>, in_guard |-> FALSE], <<goal>>).SS.solutions

\* ------------------------------------------------------------------------
\* The programs and goals the two solvers are run on
\* ------------------------------------------------------------------------
IGuardKinds == {"WAIT", "QUIET_WAIT", "ARROW", "COMMIT", "CUT"}

P1(f, a) == Struct(f, <<a>>)
P2(f, a, b) == Struct(f, <<a, b>>)
A(n) == Atom(n)

\*   member(X, [X|_]).              member(X, [_|T]) :- member(X, T).
\*   c(a) :- true GT true.          c(b) :- true GT true.
\*   p(X) :- true GT q(X).          q(a).   q(b).
\*   r(g(W)).                       e(Z) :- Z = g(a) GT true.
\*   h(g(V)) :- V = a GT true.
\*   s(X) :- X = a GT true.         s(b).
\*   d(X) :- true GT q(c).          d(b).
IProgram(gt) ==
    << Fact(P2("member", TV("X"), Cons(TV("X"), TV("_")))),
       Clause(P2("member", TV("X"), Cons(TV("_"), TV("T"))), None, "NONE",
              <<P2("member", TV("X"), TV("T"))>>),
       Clause(P1("c", A("a")), A("true"), gt, <<A("true")>>),
       Clause(P1("c", A("b")), A("true"), gt, <<A("true")>>),
       Clause(P1("p", TV("X")), A("true"), gt, <<P1("q", TV("X"))>>),
       Fact(P1("q", A("a"))),
       Fact(P1("q", A("b"))),
       Fact(P1("r", P1("g", TV("W")))),
       Clause(P1("e", TV("Z")), P2("=", TV("Z"), P1("g", A("a"))), gt, <<A("true")>>),
       Clause(P1("h", P1("g", TV("V"))), P2("=", TV("V"), A("a")), gt, <<A("true")>>),
       Clause(P1("s", TV("X")), P2("=", TV("X"), A("a")), gt, <<A("true")>>),
       Fact(P1("s", A("b"))),
       Clause(P1("d", TV("X")), A("true"), gt, <<P1("q", A("c"))>>),
       Fact(P1("d", A("b"))) >>

\* The query variables X and Y are the cells 1 and 2.
QX == Var(1)
QY == Var(2)
QVarX == <<[name |-> "X", id |-> 1]>>
QVarY == <<[name |-> "Y", id |-> 2]>>
Query(goal, qv) == [goal |-> goal, qv |-> qv]

GoalMember == P2("member", QX, Cons(A("a"), Cons(A("b"), Cons(A("c"), NIL))))
GoalChoose == P1("c", QX)
GoalChooseThen == P2(",", P1("c", QX), P2("=", QX, A("b")))
GoalCommitBody == P1("p", QX)
GoalSibling == P2(",", P1("r", QX), P1("e", QX))
GoalQuietDirect == P1("h", P1("g", QX))
GoalQuietSkip == P1("s", QY)
GoalBodyFails == P1("d", QX)
GoalNotBound == P2(";", P1("\\+", P2("=", QX, A("a"))), P2("=", QX, A("b")))
GoalNotFailing == P2(",", P1("\\+", P2(",", P1("q", QX), P2("=", QX, A("c")))), P2("=", QY, A("b")))
GoalNotPartial == P2(",", P1("\\+", P2("=", P2("f", QX, A("a")), P2("f", A("b"), A("c")))), P2("=", QY, A("b")))
GoalThenFails == P2(";", P2("->", P1("q", QX), P2("=", QX, A("c"))), P2("=", QY, A("n")))
GoalCondUndone == P2(";", P2("->", P2(",", P2("=", QX, A("a")), A("fail")), P2("=", QY, A("a"))), P2("=", QY, A("b")))
GoalNotCall == P2(";", P1("\\+", P1("c", QX)), P1("q", QX))

IQueries ==
    { Query(GoalMember, QVarX),
      Query(GoalChoose, QVarX),
      Query(GoalChooseThen, QVarX),
      Query(GoalCommitBody, QVarX),
      Query(GoalSibling, QVarX),
      Query(GoalQuietDirect, QVarX),
      Query(GoalQuietSkip, QVarY),
      Query(GoalBodyFails, QVarX),
      Query(GoalNotBound, QVarX),
      Query(GoalNotFailing, QVarX \o QVarY),
      Query(GoalNotCall, QVarX),
      Query(GoalThenFails, QVarX \o QVarY),
      Query(GoalCondUndone, QVarX \o QVarY),
      Query(GoalNotPartial, QVarX \o QVarY),
      Query(P2(";", P1("q", QX), P2("=", QX, A("c"))), QVarX),
      Query(P2(",", P1("q", QX), P1("\\+", P2("=", QX, A("a")))), QVarX),
      Query(P2(";", P2("->", P1("q", QX), P2("=", QY, QX)), P2("=", QY, A("n"))),
            QVarX \o QVarY),
      Query(P2(";", P2("->", A("fail"), P2("=", QY, A("a"))), P2("=", QY, A("b"))),
            QVarY) }

\* ExState() with the variables of the parsed goal and the root and-box
IStore ==
    [cells |-> <<NewCell("X", FALSE, 0), NewCell("Y", FALSE, 0)>>,
     trail |-> <<>>, wake |-> <<>>, recall |-> <<>>, envs |-> <<0>>, cur |-> 1]

IInit ==
    /\ \E gt \in IGuardKinds, q \in IQueries :
           /\ igoal = q.goal
           /\ iqv = q.qv
           /\ im = [prog |-> IProgram(gt), stk |-> <<Frame(q.goal, 0)>>, S |-> IStore,
                    sig |-> "start", at |-> 1, val |-> FALSE, ncall |-> 0,
                    log |-> <<>>, glog |-> <<>>, clog |-> <<>>, nlog |-> <<>>, ilog |-> <<>>]
    /\ isols = <<>>
    /\ ssols = [done |-> FALSE, solutions |-> <<>>]
    /\ UIdle
    /\ WIdle
    /\ BIdle

IRunning == im.at >= 1 /\ im.sig \in {"start", "resume", "yield", "done"}

IStep(kind, M) ==
    /\ IRunning
    /\ im.stk[im.at].k = kind
    /\ im' = M
    /\ UNCHANGED <<igoal, iqv, isols, ssols, uvars, wvars, bvars>>

Execute == IStep("exec", _execute(im, im.at))

ExecuteBuiltin == IStep("builtin", _execute_builtin(im, im.at))

ExecuteConjunction == IStep("conj", _execute_conjunction(im, im.at))

ExecuteDisjunction == IStep("disj", _execute_disjunction(im, im.at))

ExecuteNegation == IStep("neg", _execute_negation(im, im.at))

ExecuteIfThenElse == IStep("ite", _execute_if_then_else(im, im.at))

TryClauses == IStep("clauses", _try_clauses(im, im.at))

TryClause == IStep("clause", _try_clause(im, im.at))

\* solve: for _ in self._execute(goal): yield self._get_solution(), as
\* solve_all's list() consumes it
SolveYield ==
    /\ im.at = 0 /\ im.sig = "yield"
    /\ isols' = Append(isols, _get_solution(im.S.cells, iqv))
    /\ im' = Resume(im, 1)
    /\ UNCHANGED <<igoal, iqv, ssols, uvars, wvars, bvars>>

SolveAllReturn ==
    /\ im.at = 0 /\ im.sig = "done"
    /\ im' = [im EXCEPT !.sig = "end"]
    /\ UNCHANGED <<igoal, iqv, isols, ssols, uvars, wvars, bvars>>

\* Scheduler(program).solve(goal) on the same program and a fresh parse of
\* the same goal
SchedulerSolve ==
    /\ im.sig = "end"
    /\ ~ssols.done
    /\ ssols' = [done |-> TRUE,
                 solutions |-> Scheduler_solve(im.prog, igoal, iqv, IStore)]
    /\ UNCHANGED <<igoal, iqv, im, isols, uvars, wvars, bvars>>

INext ==
    \/ Execute
    \/ ExecuteBuiltin
    \/ ExecuteConjunction
    \/ ExecuteDisjunction
    \/ ExecuteNegation
    \/ ExecuteIfThenElse
    \/ TryClauses
    \/ TryClause
    \/ SolveYield
    \/ SolveAllReturn
    \/ SchedulerSolve

SpecI == IInit /\ [][INext]_vars

\* ------------------------------------------------------------------------
\* Properties of the Interpreter and the Scheduler
\* ------------------------------------------------------------------------
Sol(n, v) == {[name |-> n, value |-> v]}

IGuardKind == im.prog[3].guard_type

IFinished == im.sig = "end"

\* C5: for a clause with a quiet guard, the external cells (reachable from
\* the call goal, not local to the clause's and-box) that stand for a value
\* are the same right after a guard solution was accepted or rejected as
\* they were right before the guard ran.
C5_QuietGuardPreservesExternals ==
    \A j \in DOMAIN im.glog :
        im.glog[j].guard_type \in QUIET_GUARDS => im.glog[j].post = im.glog[j].pre

\* C6: once a clause with a pruning guard has produced a solution of a call,
\* no later clause of that call produces one; with c(a) :- true | true and
\* c(b) :- true | true the goal c(X) has exactly the solution X = a.
C6_PruningCommits ==
    /\ \A j, k \in DOMAIN im.log :
           (j < k /\ im.log[j].call = im.log[k].call /\ im.log[j].pruning)
               => im.log[k].idx <= im.log[j].idx
    /\ (igoal = GoalChoose /\ IGuardKind \in PRUNING_GUARDS) =>
           /\ Len(isols) <= 1
           /\ IFinished => isols = <<Sol("X", A("a"))>>

C6_Witness ==
    /\ IFinished
    /\ igoal = GoalChoose
    /\ IGuardKind = "COMMIT"
    /\ isols = <<Sol("X", A("a"))>>
    /\ \E j \in DOMAIN im.log : im.log[j].pruning /\ im.log[j].idx = 1

\* C7: the solutions of a call come in clause declaration order, depth
\* first: a solution through clause i is never yielded after one through a
\* later clause of the same call, and member(X, [a, b, c]) yields X = a,
\* X = b, X = c in that order, each once.
C7_DeclarationOrder ==
    /\ \A j, k \in DOMAIN im.log :
           (j < k /\ im.log[j].call = im.log[k].call) => im.log[j].idx <= im.log[k].idx
    /\ igoal = GoalMember =>
           LET all == <<Sol("X", A("a")), Sol("X", A("b")), Sol("X", A("c"))>>
           IN /\ Len(isols) <= 3
              /\ isols = SubSeq(all, 1, Len(isols))
              /\ IFinished => isols = all

C7_Witness ==
    /\ IFinished
    /\ igoal = GoalMember
    /\ Len(isols) = 3
    /\ \E j, k \in DOMAIN im.log :
           j < k /\ im.log[j].call = im.log[k].call /\ im.log[j].idx < im.log[k].idx

\* C9: Scheduler.solve returns the sequence of solutions that
\* Interpreter.solve_all returns for the same program and goal.
C9_SchedulerEqualsInterpreter ==
    ssols.done => ssols.solutions = isols

\* ------------------------------------------------------------------------
\* The and-box / choice-box tree (engine.py).  A worker heap H holds the
\* cells, the env tree (envs[e] is the parent of e, 0 is None), the and-boxes
\* ab and choice-boxes cb (links next, prev, father, tried are indices, 0 is
\* None) and the ExState: trail, wake, recall, tasks and root.
\* ------------------------------------------------------------------------
\* AndBox(): status STABLE, empty lists, no links.  local_vars is the dict
\* in insertion order; body_goals is the attribute the worker attaches
\* (absent, None and [] all read as false, modelled as <<>>).
AndBox(env) ==
    [status |-> "STABLE", env |-> env, unifiers |-> <<>>, tried |-> 0,
     father |-> 0, next |-> 0, prev |-> 0, goals |-> <<>>,
     local_vars |-> <<>>, body_goals |-> <<>>]

\* The class declares no guard_type; the field here holds what
\* getattr(chb, 'guard_type', GuardType.NONE) answers.
ChoiceBox(father) ==
    [father |-> father, tried |-> 0, next |-> 0, prev |-> 0,
     predicate |-> None, guard_type |-> "NONE"]

\* hasattr(chb, 'guard_type') on a ChoiceBox
ChoiceBox_has_guard_type == FALSE

Task(type, andbox) == [type |-> type, andbox |-> andbox]

is_dead(H, a) == H.ab[a].status = "DEAD"
is_stable(H, a) == H.ab[a].status = "STABLE"
is_unstable(H, a) == H.ab[a].status = "UNSTABLE"
is_quiet(H, a) == H.ab[a].unifiers = <<>>
is_solved(H, a) == H.ab[a].tried = 0

mark_dead(H, a) == [H EXCEPT !.ab[a].status = "DEAD"]
mark_unstable(H, a) == [H EXCEPT !.ab[a].status = "UNSTABLE"]

add_unifier(H, a, t1, t2) == [H EXCEPT !.ab[a].unifiers = Append(@, <<t1, t2>>)]

\* dict[k] = v and "k in dict" on an insertion-ordered dict of variables
DictHas(d, k) == \E i \in 1..Len(d) : d[i].name = k

DictSet(d, k, v) ==
    IF DictHas(d, k)
    THEN LET i == CHOOSE j \in 1..Len(d) : d[j].name = k
         IN [d EXCEPT ![i].var = v]
    ELSE Append(d, [name |-> k, var |-> v])

RECURSIVE LastAndBox(_, _)
LastAndBox(H, a) == IF H.ab[a].next = 0 THEN a ELSE LastAndBox(H, H.ab[a].next)

RECURSIVE LastChoiceBox(_, _)
LastChoiceBox(H, c) == IF H.cb[c].next = 0 THEN c ELSE LastChoiceBox(H, H.cb[c].next)

add_alternative(H, c, a) ==
    LET H1 == [H EXCEPT !.ab[a].father = c]
    IN IF H.cb[c].tried = 0 THEN [H1 EXCEPT !.cb[c].tried = a]
       ELSE LET last == LastAndBox(H, H.cb[c].tried)
            IN [H1 EXCEPT !.ab[last].next = a, !.ab[a].prev = last]

\* A remove_alternative that leaves the prev link of the next sibling as it
\* was.
remove_alternative_forward_only(H, c, a) ==
    LET p == H.ab[a].prev
        n == H.ab[a].next
        H1 == IF p # 0 THEN [H EXCEPT !.ab[p].next = n] ELSE [H EXCEPT !.cb[c].tried = n]
    IN [H1 EXCEPT !.ab[a].father = 0, !.ab[a].next = 0, !.ab[a].prev = 0]

remove_alternative(H, c, a) ==
    LET p == H.ab[a].prev
        n == H.ab[a].next
        H1 == IF p # 0 THEN [H EXCEPT !.ab[p].next = n] ELSE [H EXCEPT !.cb[c].tried = n]
        H2 == IF n # 0 THEN [H1 EXCEPT !.ab[n].prev = p] ELSE H1
    IN [H2 EXCEPT !.ab[a].father = 0, !.ab[a].next = 0, !.ab[a].prev = 0]

is_determinate(H, c) == H.cb[c].tried # 0 /\ H.ab[H.cb[c].tried].next = 0

\* ChoiceBox.alternatives(): the and-boxes from a first one along next
RECURSIVE alternatives(_, _)
alternatives(H, a) == IF a = 0 THEN <<>> ELSE <<a>> \o alternatives(H, H.ab[a].next)

queue_promote(H, a) == [H EXCEPT !.tasks = Append(@, Task("PROMOTE", a))]
queue_split(H, a) == [H EXCEPT !.tasks = Append(@, Task("SPLIT", a))]

\* create_root(goal): the root choice-box, the root and-box with its own
\* EnvId() and the goal, and the START task.
create_root(H, goal) ==
    LET env == Len(H.envs) + 1
        H1 == [H EXCEPT !.envs = Append(@, 0),
                        !.cb = Append(@, ChoiceBox(0)),
                        !.ab = Append(@, [AndBox(env) EXCEPT !.goals = <<goal>>]),
                        !.trail = <<>>, !.wake = <<>>, !.recall = <<>>,
                        !.root = Len(H.cb) + 1]
        H2 == add_alternative(H1, Len(H.cb) + 1, Len(H.ab) + 1)
    IN [H2 EXCEPT !.tasks = <<Task("START", 0)>>]

\* create_choice(parent): the new choice-box is Len(H.cb) + 1
create_choice(H, parent) ==
    LET c == Len(H.cb) + 1
        H1 == [H EXCEPT !.cb = Append(@, ChoiceBox(parent))]
    IN IF H.ab[parent].tried = 0 THEN [H1 EXCEPT !.ab[parent].tried = c]
       ELSE LET last == LastChoiceBox(H, H.ab[parent].tried)
            IN [H1 EXCEPT !.cb[last].next = c, !.cb[c].prev = last]

\* create_alternative(chb): the new and-box is Len(H.ab) + 1, its env a new
\* child of the env of chb's father (the EnvId() of the dataclass default
\* is replaced at once and never seen).
\* An alternative whose env has no parent
create_alternative_detached(H, c) ==
    LET env == Len(H.envs) + 1
        H1 == [H EXCEPT !.envs = Append(@, 0), !.ab = Append(@, AndBox(env))]
    IN add_alternative(H1, c, Len(H.ab) + 1)

create_alternative(H, c) ==
    LET f == H.cb[c].father
        env == Len(H.envs) + 1
        H1 == [H EXCEPT !.envs = Append(@, IF f # 0 THEN H.ab[f].env ELSE 0),
                        !.ab = Append(@, AndBox(env))]
    IN add_alternative(H1, c, Len(H.ab) + 1)

is_local_var(H, t, a) ==
    t.k = "var" /\ H.cells[t.id].con /\ H.cells[t.id].env = H.ab[a].env

is_external_var(H, t, a) ==
    /\ t.k = "var"
    /\ H.cells[t.id].con
    /\ is_ancestor_of(H.envs, H.cells[t.id].env, H.ab[a].env)
    /\ H.cells[t.id].env # H.ab[a].env

\* ------------------------------------------------------------------------
\* And-box copying (copy.py).  A CopyState K carries the heap H, the mother,
\* the identity maps of and-boxes, choice-boxes, variables and envs (am, cm,
\* vm, em) and the result r of the last copy function.
\* ------------------------------------------------------------------------
\* (CHOOSE the \in {body : x \in {e}} : TRUE) is body where x = e, with e
\* evaluated once.

EmptyMap == [x \in {} |-> 0]

CopyState(H, mother) ==
    [H |-> H, mother |-> mother, am |-> EmptyMap, cm |-> EmptyMap,
     vm |-> EmptyMap, em |-> EmptyMap, r |-> 0]

is_local_env(K, env) ==
    env # 0 /\ is_ancestor_of(K.H.envs, K.H.ab[K.mother].env, env)

\* A faulty test that takes every variable for external.
CopyState_is_local_var_never(K, t) ==
    K.H.cells[t.id].con /\ is_local_env(K, 0)

CopyState_is_local_var(K, t) ==
    K.H.cells[t.id].con /\ is_local_env(K, K.H.cells[t.id].env)

RECURSIVE _copy_env(_, _)
_copy_env(K, env) ==
    IF env = 0 THEN [K EXCEPT !.r = 0]
    ELSE IF ~is_local_env(K, env) THEN [K EXCEPT !.r = env]
    ELSE IF env \in DOMAIN K.em THEN [K EXCEPT !.r = K.em[env]]
    ELSE (CHOOSE the \in {[P EXCEPT !.H.envs = Append(@, P.r),
              !.em = (env :> (Len(P.H.envs) + 1)) @@ @,
              !.r = Len(P.H.envs) + 1]
            : P \in {IF K.H.envs[env] # 0 THEN _copy_env(K, K.H.envs[env]) ELSE [K EXCEPT !.r = 0]}} : TRUE)

RECURSIVE _copy_term(_, _)
RECURSIVE CopyTermSeq(_, _, _, _)

\* [_copy_term(t, state) for t in ts], left to right; r is the list
CopyTermSeq(K, ts, i, acc) ==
    IF i > Len(ts) THEN [K EXCEPT !.r = acc]
    ELSE (CHOOSE the \in {CopyTermSeq(c, ts, i + 1, Append(acc, c.r))
            : c \in {_copy_term(K, ts[i])}} : TRUE)

\* The variable reached after deref is unbound, so the copied variable has
\* no binding to copy.
_copy_term(K, term) ==
    IF term.k = "none" THEN [K EXCEPT !.r = None]
    ELSE LET t == deref(K.H.cells, term)
         IN IF t.k = "var"
            THEN IF CopyState_is_local_var(K, t)
                 THEN IF t.id \in DOMAIN K.vm THEN [K EXCEPT !.r = Var(K.vm[t.id])]
                      ELSE (CHOOSE the \in {[E EXCEPT
                                !.H.cells = Append(@, NewCell(K.H.cells[t.id].name,
                                                              TRUE, E.r)),
                                !.vm = (t.id :> (Len(E.H.cells) + 1)) @@ @,
                                !.r = Var(Len(E.H.cells) + 1)]
                              : E \in {_copy_env(K, K.H.cells[t.id].env)}} : TRUE)
                 ELSE [K EXCEPT !.r = t]
            ELSE IF t.k = "str"
                 THEN (CHOOSE the \in {[c EXCEPT !.r = Struct(t.f, c.r)]
                         : c \in {CopyTermSeq(K, t.args, 1, <<>>)}} : TRUE)
            ELSE IF t.k = "cons"
                 THEN (CHOOSE the \in {(CHOOSE the \in {[tl EXCEPT !.r = Cons(h.r, tl.r)]
                           : tl \in {_copy_term(h, t.tail)}} : TRUE)
                         : h \in {_copy_term(K, t.head)}} : TRUE)
            ELSE [K EXCEPT !.r = t]

\* _copy_local_var(var, new_env, state): r is the cell of the copy
_copy_local_var(K, v, new_env) ==
    IF v \in DOMAIN K.vm THEN [K EXCEPT !.r = K.vm[v]]
    ELSE LET new == Len(K.H.cells) + 1
         IN (CHOOSE the \in {IF K.H.cells[v].binding.k # "none"
                 THEN (CHOOSE the \in {[b EXCEPT !.H.cells[new].binding = b.r, !.r = new]
                         : b \in {_copy_term(K1, K.H.cells[v].binding)}} : TRUE)
                 ELSE [K1 EXCEPT !.r = new]
               : K1 \in {[K EXCEPT !.H.cells = Append(@, NewCell(K.H.cells[v].name, TRUE, new_env)), !.vm = (v :> new) @@ @]}} : TRUE)

RECURSIVE CopyLocalVars(_, _, _, _, _)
CopyLocalVars(K, lv, i, new_env, acc) ==
    IF i > Len(lv) THEN [K EXCEPT !.r = acc]
    ELSE (CHOOSE the \in {CopyLocalVars(c, lv, i + 1, new_env, DictSet(acc, lv[i].name, c.r))
            : c \in {_copy_local_var(K, lv[i].var, new_env)}} : TRUE)

RECURSIVE CopyUnifiers(_, _, _, _)
CopyUnifiers(K, us, i, acc) ==
    IF i > Len(us) THEN [K EXCEPT !.r = acc]
    ELSE (CHOOSE the \in {(CHOOSE the \in {CopyUnifiers(c2, us, i + 1, Append(acc, <<c1.r, c2.r>>))
              : c2 \in {_copy_term(c1, us[i][2])}} : TRUE)
            : c1 \in {_copy_term(K, us[i][1])}} : TRUE)

RECURSIVE _copy_andbox(_, _)
RECURSIVE _copy_choicebox_chain(_, _, _, _, _)
RECURSIVE _copy_choicebox(_, _, _)
RECURSIVE _copy_andbox_chain(_, _, _, _, _)

\* r is the copy of and-box a; father, next and prev are left to the caller
_copy_andbox(K, a) ==
    IF a \in DOMAIN K.am THEN [K EXCEPT !.r = K.am[a]]
    ELSE LET new == Len(K.H.ab) + 1
             box == K.H.ab[a]
         IN (CHOOSE the \in {(CHOOSE the \in {(CHOOSE the \in {(CHOOSE the \in {(CHOOSE the \in {(CHOOSE the \in {(CHOOSE the \in {(CHOOSE the \in {(CHOOSE the \in {(CHOOSE the \in {(CHOOSE the \in {IF box.tried # 0
                                     THEN (CHOOSE the \in {[c EXCEPT !.H.ab[new].tried = c.r, !.r = new]
                                             : c \in {_copy_choicebox_chain(K6, box.tried, new, 0, 0)}} : TRUE)
                                     ELSE [K6 EXCEPT !.r = new]
                                   : K6 \in {[U EXCEPT !.H.ab[new].unifiers = U.r]}} : TRUE)
                                 : U \in {CopyUnifiers(K5, box.unifiers, 1, <<>>)}} : TRUE)
                               : K5 \in {[B EXCEPT !.H.ab[new].body_goals = B.r]}} : TRUE)
                             : B \in {CopyTermSeq(K4, box.body_goals, 1, <<>>)}} : TRUE)
                           : K4 \in {[G EXCEPT !.H.ab[new].goals = G.r]}} : TRUE)
                         : G \in {CopyTermSeq(K3, box.goals, 1, <<>>)}} : TRUE)
                       : K3 \in {[L EXCEPT !.H.ab[new].local_vars = L.r]}} : TRUE)
                     : L \in {CopyLocalVars(K2, box.local_vars, 1, E.r, <<>>)}} : TRUE)
                   : K2 \in {[E EXCEPT !.H.ab[new].env = E.r]}} : TRUE)
                 : E \in {_copy_env(K1, box.env)}} : TRUE)
               : K1 \in {[K EXCEPT !.H.ab = Append(@, [AndBox(0) EXCEPT !.status = box.status]), !.am = (a :> new) @@ @]}} : TRUE)

\* r is the copy of the first choice-box of the chain
_copy_choicebox_chain(K, current, parent, new_first, new_prev) ==
    IF current = 0 THEN [K EXCEPT !.r = new_first]
    ELSE (CHOOSE the \in {(CHOOSE the \in {_copy_choicebox_chain(K1, K.H.cb[current].next, parent,
                IF new_first = 0 THEN c.r ELSE new_first, c.r)
              : K1 \in {IF new_prev # 0 THEN [c EXCEPT !.H.cb[new_prev].next = c.r, !.H.cb[c.r].prev = new_prev] ELSE c}} : TRUE)
            : c \in {_copy_choicebox(K, current, parent)}} : TRUE)

_copy_choicebox(K, c, parent) ==
    IF c \in DOMAIN K.cm THEN [K EXCEPT !.r = K.cm[c]]
    ELSE LET new == Len(K.H.cb) + 1
         IN (CHOOSE the \in {IF K.H.cb[c].tried # 0
                 THEN (CHOOSE the \in {[x EXCEPT !.H.cb[new].tried = x.r, !.r = new]
                         : x \in {_copy_andbox_chain(K1, K.H.cb[c].tried, new, 0, 0)}} : TRUE)
                 ELSE [K1 EXCEPT !.r = new]
               : K1 \in {[K EXCEPT !.H.cb = Append(@, [ChoiceBox(parent) EXCEPT !.predicate = K.H.cb[c].predicate]), !.cm = (c :> new) @@ @]}} : TRUE)

\* r is the copy of the first and-box of the chain
_copy_andbox_chain(K, current, parent, new_first, new_prev) ==
    IF current = 0 THEN [K EXCEPT !.r = new_first]
    ELSE (CHOOSE the \in {(CHOOSE the \in {(CHOOSE the \in {_copy_andbox_chain(K2, K.H.ab[current].next, parent,
                  IF new_first = 0 THEN c.r ELSE new_first, c.r)
                : K2 \in {IF new_prev # 0 THEN [K1 EXCEPT !.H.ab[new_prev].next = c.r, !.H.ab[c.r].prev = new_prev] ELSE K1}} : TRUE)
              : K1 \in {[c EXCEPT !.H.ab[c.r].father = parent]}} : TRUE)
            : c \in {_copy_andbox(K, current)}} : TRUE)

\* copy_andbox_subtree(mother, exstate); _update_suspensions changes nothing
copy_andbox_subtree(H, mother) == _copy_andbox(CopyState(H, mother), mother)

\* ------------------------------------------------------------------------
\* AKLWorker (akl_engine.py).  The worker's program, query_vars and
\* solutions live in the heap record beside the ExState; ulog and slog
\* record what each =/2 goal and each split did.
\* ------------------------------------------------------------------------
WAIT_GUARDS == {"WAIT", "QUIET_WAIT"}

\* The local name f"_{name}_local" of a goal variable; "" is no name.
LocalName(nm) == IF nm = "" THEN "" ELSE "_" \o nm \o "_local"

\* _copy_term_to_local(term, andb, var_map): C carries the heap, the
\* var_map (by cell identity) and the copied term t.
RECURSIVE _copy_term_to_local(_, _, _)
RECURSIVE CopyArgsToLocal(_, _, _, _)

CopyArgsToLocal(as, i, a, C) ==
    IF i > Len(as) THEN C
    ELSE (CHOOSE the \in {CopyArgsToLocal(as, i + 1, a, [r EXCEPT !.t = Append(C.t, r.t)])
            : r \in {_copy_term_to_local(as[i], a, C)}} : TRUE)

_copy_term_to_local(term, a, C) ==
    LET t == deref(C.H.cells, term)
        new == Len(C.H.cells) + 1
        env == C.H.ab[a].env
    IN IF t.k = "var"
       THEN IF C.H.cells[t.id].name = "_"
            THEN [C EXCEPT !.t = Var(new),
                           !.H.cells = Append(@, NewCell("", TRUE, env))]
            ELSE IF t.id \in DOMAIN C.map THEN [C EXCEPT !.t = Var(C.map[t.id])]
            ELSE LET local_name == LocalName(C.H.cells[t.id].name)
                 IN (CHOOSE the \in {(CHOOSE the \in {[C EXCEPT !.t = Var(new),
                           !.H = add_unifier(H2, a, t, Var(new)),
                           !.map = (t.id :> new) @@ @]
                         : H2 \in {IF local_name # "" THEN [H1 EXCEPT !.ab[a].local_vars = DictSet(@, local_name, new)] ELSE H1}} : TRUE)
                       : H1 \in {[C.H EXCEPT !.cells = Append(@, NewCell(local_name, TRUE, env))]}} : TRUE)
       ELSE IF t.k = "str"
            THEN (CHOOSE the \in {[r EXCEPT !.t = Struct(t.f, r.t)]
                    : r \in {CopyArgsToLocal(t.args, 1, a, [C EXCEPT !.t = <<>>])}} : TRUE)
       ELSE IF t.k = "cons"
            THEN (CHOOSE the \in {(CHOOSE the \in {[tl EXCEPT !.t = Cons(h.t, tl.t)]
                      : tl \in {_copy_term_to_local(t.tail, a, h)}} : TRUE)
                    : h \in {_copy_term_to_local(t.head, a, C)}} : TRUE)
       ELSE [C EXCEPT !.t = t]

\* AKLWorker._copy_clause(clause, env): fresh ConstrainedVars in env, one
\* per variable name of the clause.
_copy_clause(clause, cells, env) ==
    (CHOOSE the \in {(CHOOSE the \in {(CHOOSE the \in {[head |-> h.t,
             guard |-> IF clause.guard = None THEN None ELSE g.t,
             body |-> b.t,
             cells |-> b.cells]
           : b \in {CopyArgs(clause.body, 1, [g EXCEPT !.t = <<>>], env)}} : TRUE)
         : g \in {IF clause.guard = None THEN h ELSE copy_with_fresh_vars(clause.guard, h, env)}} : TRUE)
       : h \in {copy_with_fresh_vars(clause.head, [t |-> None, cells |-> cells, map |-> EmptyMap], env)}} : TRUE)

\* _collect_query_vars(term): the named variables of the goal, first
\* occurrence first (no name of the model's goals begins with "_").
RECURSIVE _collect_query_vars(_, _, _)
RECURSIVE CollectQueryArgs(_, _, _, _)

CollectQueryArgs(cells, as, i, qv) ==
    IF i > Len(as) THEN qv
    ELSE CollectQueryArgs(cells, as, i + 1, _collect_query_vars(cells, as[i], qv))

_collect_query_vars(cells, term, qv) ==
    LET t == deref(cells, term)
    IN IF t.k = "var"
       THEN IF cells[t.id].name \notin {"", "_"} /\ ~DictHas(qv, cells[t.id].name)
            THEN Append(qv, [name |-> cells[t.id].name, var |-> t.id])
            ELSE qv
       ELSE IF t.k = "str" THEN CollectQueryArgs(cells, t.args, 1, qv)
       ELSE IF t.k = "cons"
            THEN _collect_query_vars(cells, t.tail, _collect_query_vars(cells, t.head, qv))
       ELSE qv

\* _deref_term / _ground_copy: an unbound variable stays as it is
RECURSIVE _deref_term(_, _)
_deref_term(cells, term) ==
    LET t == deref(cells, term)
    IN IF t.k = "str"
       THEN Struct(t.f, [i \in 1..Len(t.args) |-> _deref_term(cells, t.args[i])])
       ELSE IF t.k = "cons"
            THEN Cons(_deref_term(cells, t.head), _deref_term(cells, t.tail))
       ELSE t

_ground_copy(cells, term) == _deref_term(cells, term)

\* all_unifiers of _record_solution: the unifiers of andb and of the
\* and-boxes above it, as long as the father has a father
RECURSIVE AllUnifiers(_, _)
AllUnifiers(H, current) ==
    LET f == H.ab[current].father
    IN H.ab[current].unifiers \o
       (IF f # 0 /\ H.cb[f].father # 0 THEN AllUnifiers(H, H.cb[f].father) ELSE <<>>)

\* var_to_value[id(var)]: the last pair of a variable wins
RECURSIVE VarToValue(_, _, _)
VarToValue(us, v, i) ==
    IF i = 0 THEN None
    ELSE IF us[i][1] = Var(v) THEN us[i][2]
    ELSE VarToValue(us, v, i - 1)

RECURSIVE resolve(_, _, _, _)
resolve(H, us, var, visited) ==
    IF var.id \in visited THEN var
    ELSE LET val == deref(H.cells, var)
             nxt == VarToValue(us, var.id, Len(us))
         IN IF val # var THEN val
            ELSE IF nxt # None
                 THEN LET next_val == deref(H.cells, nxt)
                      IN IF next_val.k = "var"
                         THEN resolve(H, us, next_val, visited \cup {var.id})
                         ELSE next_val
            ELSE var

_record_solution(H, a) ==
    (CHOOSE the \in {LET qv == H.query_vars
             val(i) == resolve(H, us, Var(qv[i].var), {})
             bound == {i \in 1..Len(qv) : val(i) # Var(qv[i].var)}
         IN [H EXCEPT !.solutions =
                 Append(@, {[name |-> qv[i].name, value |-> _ground_copy(H.cells, val(i))]
                            : i \in bound}),
                       !.rlog = Append(@, [andb |-> a, status |-> H.ab[a].status])]
       : us \in {AllUnifiers(H, a)}} : TRUE)

\* The while loop of _cleanup_dead_alternatives; next_alt is read before
\* the removal
RECURSIVE CleanupFrom(_, _, _)
CleanupFrom(H, c, alt) ==
    IF alt = 0 THEN H
    ELSE (CHOOSE the \in {CleanupFrom(H1, c, H.ab[alt].next)
            : H1 \in {IF is_dead(H, alt) THEN remove_alternative(H, c, alt) ELSE H}} : TRUE)

_cleanup_dead_alternatives(H, c) == CleanupFrom(H, c, H.cb[c].tried)

\* _rehome_term_var: the variables reached with deref at every level
RECURSIVE RehomeVars(_, _)
RehomeVars(cells, term) ==
    LET t == deref(cells, term)
    IN IF t.k = "var" THEN {t.id}
       ELSE IF t.k = "str" THEN UNION {RehomeVars(cells, t.args[i]) : i \in 1..Len(t.args)}
       ELSE IF t.k = "cons" THEN RehomeVars(cells, t.head) \cup RehomeVars(cells, t.tail)
       ELSE {}

\* The env of every ConstrainedVar in vs that sits in old_env becomes new_env
RECURSIVE RehomeCells(_, _, _, _)
RehomeCells(H, vs, old_env, new_env) ==
    IF vs = {} THEN H
    ELSE LET v == CHOOSE x \in vs : TRUE
         IN (CHOOSE the \in {RehomeCells(H1, vs \ {v}, old_env, new_env)
               : H1 \in {IF H.cells[v].con /\ H.cells[v].env = old_env THEN [H EXCEPT !.cells[v].env = new_env, !.hlog = Append(@, [cell |-> v, from |-> old_env, to |-> new_env])] ELSE H}} : TRUE)

_rehome_term_vars(H, terms, old_env, new_env) ==
    RehomeCells(H, UNION {RehomeVars(H.cells, terms[i]) : i \in 1..Len(terms)},
                old_env, new_env)

\* for name, var in andb.local_vars.items(), from the i-th entry on
RECURSIVE RehomeLocals(_, _, _, _, _)
RehomeLocals(H, lv, i, old_env, parent) ==
    IF i > Len(lv) THEN H
    ELSE LET v == lv[i].var
         IN IF H.cells[v].con /\ H.cells[v].env = old_env
            THEN (CHOOSE the \in {(CHOOSE the \in {RehomeLocals(H2, lv, i + 1, old_env, parent)
                      : H2 \in {IF ~DictHas(H1.ab[parent].local_vars, lv[i].name) THEN [H1 EXCEPT !.ab[parent].local_vars = DictSet(@, lv[i].name, v)] ELSE H1}} : TRUE)
                    : H1 \in {[H EXCEPT !.cells[v].env = H.ab[parent].env, !.hlog = Append(@, [cell |-> v, from |-> old_env, to |-> H.ab[parent].env])]}} : TRUE)
            ELSE RehomeLocals(H, lv, i + 1, old_env, parent)

_rehome_local_vars(H, a, parent) ==
    (CHOOSE the \in {IF H.ab[a].body_goals # <<>>
         THEN _rehome_term_vars(H1, H.ab[a].body_goals, H.ab[a].env, H1.ab[parent].env)
         ELSE H1
       : H1 \in {RehomeLocals(H, H.ab[a].local_vars, 1, H.ab[a].env, parent)}} : TRUE)

\* alt.mark_dead() along the chain from alt on, but for the and-box keep
RECURSIVE KillChain(_, _, _)
KillChain(H, alt, keep) ==
    IF alt = 0 THEN H
    ELSE (CHOOSE the \in {KillChain(H1, H1.ab[alt].next, keep)
            : H1 \in {IF alt # keep THEN mark_dead(H, alt) ELSE H}} : TRUE)

\* The and-boxes and choice-boxes reached from a set of each along the
\* tried and next links
RECURSIVE Reach(_, _, _)
Reach(H, andbs, chbs) ==
    LET andbs2 == andbs \cup (({H.cb[c].tried : c \in chbs} \cup {H.ab[a].next : a \in andbs}) \ {0})
        chbs2 == chbs \cup (({H.ab[a].tried : a \in andbs} \cup {H.cb[c].next : c \in chbs}) \ {0})
    IN IF andbs2 = andbs /\ chbs2 = chbs THEN [ab |-> andbs, cb |-> chbs] ELSE Reach(H, andbs2, chbs2)

\* The tree under the root choice-box is well linked: the first alternative
\* of a choice-box has that choice-box as father and no prev, the first
\* choice-box of an and-box has that and-box as father and no prev, a next
\* sibling has the same father and points back with prev, and a prev
\* sibling points forward with next.
WellLinked(H) ==
    LET R == Reach(H, {}, {H.root})
    IN /\ \A c \in R.cb :
              /\ H.cb[c].tried # 0 =>
                     /\ H.ab[H.cb[c].tried].father = c
                     /\ H.ab[H.cb[c].tried].prev = 0
              /\ H.cb[c].next # 0 =>
                     /\ H.cb[H.cb[c].next].prev = c
                     /\ H.cb[H.cb[c].next].father = H.cb[c].father
              /\ H.cb[c].prev # 0 => H.cb[H.cb[c].prev].next = c
       /\ \A a \in R.ab :
              /\ H.ab[a].tried # 0 =>
                     /\ H.cb[H.ab[a].tried].father = a
                     /\ H.cb[H.ab[a].tried].prev = 0
              /\ H.ab[a].next # 0 =>
                     /\ H.ab[H.ab[a].next].prev = a
                     /\ H.ab[H.ab[a].next].father = H.ab[a].father
              /\ H.ab[a].prev # 0 => H.ab[H.ab[a].prev].next = a

\* The heap after one step on the tree (expansion, failure propagation,
\* pruning, promotion, split), with the note whether the tree has been well
\* linked after every step so far
Stepped(H) == [H EXCEPT !.linked = @ /\ WellLinked(H)]

_prune_siblings(H, a, guard_type) ==
    LET c == H.ab[a].father
    IN IF c = 0 THEN H
       ELSE IF guard_type = "COMMIT" THEN KillChain(H, H.cb[c].tried, a)
       ELSE IF guard_type \in {"ARROW", "CUT"} THEN KillChain(H, H.ab[a].next, 0)
       ELSE H

\* The unbound external variables of and-box a that occur in a term, with
\* bindings followed.
ExternalVarsOf(H, a, term) ==
    {v \in RehomeVars(H.cells, term) : is_external_var(H, Var(v), a)}

\* _add_unifier(andb, var, value)
_add_unifier(H, a, var, value) ==
    IF H.cells[var.id].con
    THEN add_suspension(add_unifier(H, a, var, value), var.id, Susp("ANDBOX", a))
    ELSE add_unifier(H, a, var, value)

\* What a =/2 goal of and-box a did: the external variables it met, those
\* whose binding it wrote, the status it found and, when it deferred on var,
\* the pairs it appended, the status it left and whether the suspension is
\* registered.
UnifyEvent(H, H2, a, d1, d2, var) ==
    LET ext == ExternalVarsOf(H, a, d1) \cup ExternalVarsOf(H, a, d2)
    IN [andb |-> a, ext |-> ext,
        written |-> {v \in ext : H2.cells[v].binding # H.cells[v].binding},
        deferred |-> var # 0, var |-> var,
        appended |-> SubSeq(H2.ab[a].unifiers, Len(H.ab[a].unifiers) + 1,
                            Len(H2.ab[a].unifiers)),
        before |-> H.ab[a].status,
        status |-> H2.ab[a].status,
        suspended |-> IF var = 0 THEN FALSE
                      ELSE /\ H2.cells[var].susp # <<>>
                           /\ H2.cells[var].susp[1] = Susp("ANDBOX", a)]

_try_unification(H, a, t1, t2) ==
    LET d1 == deref(H.cells, t1)
        d2 == deref(H.cells, t2)
        var == IF d1.k = "var" /\ is_external_var(H, d1, a) THEN d1.id
               ELSE IF d2.k = "var" /\ is_external_var(H, d2, a) THEN d2.id
               ELSE 0
    IN (CHOOSE the \in {Res(r.ok, [r.S EXCEPT !.ulog = Append(@, UnifyEvent(H, r.S, a, d1, d2, var))])
          : r \in {IF d1.k = "var" /\ is_external_var(H, d1, a) THEN Res(TRUE, mark_unstable(_add_unifier(H, a, d1, d2), a)) ELSE IF d2.k = "var" /\ is_external_var(H, d2, a) THEN Res(TRUE, mark_unstable(_add_unifier(H, a, d2, d1), a)) ELSE unify(H, d1, d2, TRUE, FALSE)}} : TRUE)

RECURSIVE _try_andbox(_, _)
RECURSIVE TryGoals(_, _)
RECURSIVE _try_goal(_, _, _)
RECURSIVE _expand_predicate(_, _, _, _, _)
RECURSIVE ExpandClauses(_, _, _, _, _)
RECURSIVE TryAlternatives(_, _)
RECURSIVE _expand_disjunction(_, _, _)
RECURSIVE _expand_if_then_else(_, _, _, _, _)
RECURSIVE _try_negation(_, _, _)
RECURSIVE _try_guard(_, _)
RECURSIVE _promote_andbox(_, _)
RECURSIVE DischargeUnifiers(_, _, _, _)
RECURSIVE _propagate_failure(_, _)

\* The operands of a goal that is a conjunction, left to right.
Operands(cells, g) ==
    IF IsStr(deref(cells, g), ",", 2) THEN deref(cells, g).args ELSE <<>>

_try_andbox(H, a) ==
    IF is_dead(H, a) THEN H
    ELSE (CHOOSE the \in {IF ~r.ok THEN r.S
              ELSE IF is_solved(r.S, a) THEN _try_guard(r.S, a)
              ELSE r.S
            : r \in {TryGoals(H, a)}} : TRUE)

\* The while loop of _try_andbox; ok is false when the loop returned.  Each
\* goal popped is noted in dlog with the status its and-box has then.
TryGoals(H, a) ==
    IF H.ab[a].goals = <<>> THEN Res(TRUE, H)
    ELSE (CHOOSE the \in {(CHOOSE the \in {IF ~r.ok THEN [ok |-> FALSE, S |-> _propagate_failure(r.S, a)]
                ELSE IF is_unstable(r.S, a) THEN Res(FALSE, r.S)
                ELSE TryGoals(r.S, a)
              : r \in {_try_goal(H1, a, Head(H.ab[a].goals))}} : TRUE)
            : H1 \in {[H EXCEPT !.ab[a].goals = Tail(@),
                                 !.dlog = Append(@, [andb |-> a, status |-> H.ab[a].status]),
                                 !.qlog = Append(@, [t |-> "goal", andb |-> a,
                                                     popped |-> Head(H.ab[a].goals),
                                                     rest |-> Tail(H.ab[a].goals),
                                                     operands |-> Operands(H.cells, Head(H.ab[a].goals))])]}} : TRUE)

_try_goal(H, a, g) ==
    LET goal == deref(H.cells, g)
    IN IF IsStr(goal, ",", 2)
       THEN Res(TRUE, [H EXCEPT !.ab[a].goals = <<goal.args[1], goal.args[2]>> \o @])
       ELSE IF IsStr(goal, ";", 2) THEN _expand_disjunction(H, a, goal)
       ELSE IF IsStr(goal, "\\+", 1) THEN _try_negation(H, a, goal.args[1])
       ELSE IF goal = Atom("true") THEN Res(TRUE, H)
       ELSE IF goal = Atom("fail") \/ goal = Atom("false") THEN Res(FALSE, H)
       ELSE IF IsStr(goal, "=", 2) THEN _try_unification(H, a, goal.args[1], goal.args[2])
       ELSE IF goal.k \notin {"atom", "str"} THEN Res(FALSE, H)
       ELSE LET name == IF goal.k = "atom" THEN goal.name ELSE goal.f
                args == IF goal.k = "atom" THEN <<>> ELSE goal.args
            IN IF is_builtin(name, Len(args))
               THEN call_builtin(H, name, Len(args), args)
               ELSE _expand_predicate(H, a, name, Len(args), goal)

\* The for loop of _expand_predicate over the clauses from the i-th on
ExpandClauses(H, c, clauses, i, goal) ==
    IF i > Len(clauses) THEN H
    ELSE LET alt_andb == Len(H.ab) + 1
         IN (CHOOSE the \in {(CHOOSE the \in {(CHOOSE the \in {(CHOOSE the \in {ExpandClauses(H3, c, clauses, i + 1, goal)
                     : H3 \in {[loc.H EXCEPT !.ab[alt_andb].goals = @ \o <<Struct("=", <<loc.t, fresh.head>>)>> \o (IF fresh.guard # None THEN <<fresh.guard>> ELSE <<>>), !.ab[alt_andb].body_goals = fresh.body]}} : TRUE)
                   : loc \in {_copy_term_to_local(goal, alt_andb, [t |-> None, H |-> [H1 EXCEPT !.cells = fresh.cells], map |-> EmptyMap])}} : TRUE)
                 : fresh \in {_copy_clause(clauses[i], H1.cells, H1.ab[alt_andb].env)}} : TRUE)
               : H1 \in {create_alternative(H, c)}} : TRUE)

\* The while loop over the alternatives; alt.next is read after the call
TryAlternatives(H, alt) ==
    IF alt = 0 THEN H
    ELSE (CHOOSE the \in {TryAlternatives(H1, H1.ab[alt].next)
            : H1 \in {IF ~is_dead(H, alt) THEN _try_andbox(H, alt) ELSE H}} : TRUE)

\* create_choice(andb, predicate=...) and "Store guard type in choice-box"
StoreGuardType(H, c, predicate, clauses) ==
    IF ChoiceBox_has_guard_type
    THEN [H EXCEPT !.cb[c].predicate = predicate,
                   !.cb[c].guard_type = clauses[1].guard_type]
    ELSE [H EXCEPT !.cb[c].predicate = predicate]

\* _expand_predicate up to "Try alternatives": the choice-box, one
\* alternative per clause, and the dead alternatives cleaned up.  The
\* and-boxes created for the call are noted in elog.
ExpandedChoice(H, a, c, predicate, clauses, goal) ==
    (CHOOSE the \in {(CHOOSE the \in {Stepped(_cleanup_dead_alternatives([H1 EXCEPT !.elog = Append(@, [chb |-> c, created |-> (Len(H.ab) + 1)..Len(H1.ab)])], c))
            : H1 \in {ExpandClauses(H0, c, clauses, 1, goal)}} : TRUE)
          : H0 \in {StoreGuardType(create_choice(H, a), c, predicate, clauses)}} : TRUE)

_expand_predicate(H, a, name, arity, goal) ==
    LET clauses == get_clauses(H.program, name, arity)
        c == Len(H.cb) + 1
    IN IF clauses = <<>> THEN Res(FALSE, H)
       ELSE (CHOOSE the \in {IF H2.cb[c].tried = 0 THEN Res(FALSE, H2)
                 ELSE IF is_determinate(H2, c)
                      THEN [ok |-> TRUE, S |-> _try_andbox(H2, H2.cb[c].tried)]
                 ELSE [ok |-> TRUE, S |-> TryAlternatives(H2, H2.cb[c].tried)]
               : H2 \in {ExpandedChoice(H, a, c, <<name, arity>>, clauses, goal)}} : TRUE)

\* The choice-box of (left ; right) with its two alternatives, each
\* holding its arm as its goal
DisjunctionBoxes(H, a, left, right) ==
    LET c == Len(H.cb) + 1
        left_andb == Len(H.ab) + 1
        right_andb == Len(H.ab) + 2
    IN (CHOOSE the \in {(CHOOSE the \in {(CHOOSE the \in {(CHOOSE the \in {Stepped([H3 EXCEPT !.ab[right_andb].goals = Append(@, right)])
                     : H3 \in {create_alternative(H2, c)}} : TRUE)
                   : H2 \in {[H1 EXCEPT !.ab[left_andb].goals = Append(@, left)]}} : TRUE)
                 : H1 \in {create_alternative(H0, c)}} : TRUE)
               : H0 \in {create_choice(H, a)}} : TRUE)

_expand_disjunction(H, a, goal) ==
    LET left == goal.args[1]
        right == goal.args[2]
        c == Len(H.cb) + 1
        left_andb == Len(H.ab) + 1
        right_andb == Len(H.ab) + 2
    IN IF IsStr(left, "->", 2)
       THEN _expand_if_then_else(H, a, left.args[1], left.args[2], right)
       ELSE (CHOOSE the \in {(CHOOSE the \in {[ok |-> TRUE, S |-> _try_andbox(H5, right_andb)]
                    : H5 \in {_try_andbox(H4, left_andb)}} : TRUE)
               : H4 \in {DisjunctionBoxes(H, a, left, right)}} : TRUE)

\* The choice-box of (cond -> then ; else): the condition is the goal of
\* the first alternative and then its body, else the goal of the second
IfThenElseBoxes(H, a, cond, then, else_) ==
    LET c == Len(H.cb) + 1
        then_andb == Len(H.ab) + 1
        else_andb == Len(H.ab) + 2
    IN (CHOOSE the \in {(CHOOSE the \in {(CHOOSE the \in {(CHOOSE the \in {Stepped([H3 EXCEPT !.ab[else_andb].goals = Append(@, else_)])
                    : H3 \in {create_alternative(H2, c)}} : TRUE)
                  : H2 \in {[H1 EXCEPT !.ab[then_andb].goals = Append(@, cond), !.ab[then_andb].body_goals = <<then>>]}} : TRUE)
                : H1 \in {create_alternative(H0, c)}} : TRUE)
              : H0 \in {create_choice(H, a)}} : TRUE)

\* "Condition succeeded quietly - commit to then branch": the else
\* alternative is killed and the body goals become the goals
ThenCommitted(H, then_andb, else_andb) ==
    (CHOOSE the \in {[H6 EXCEPT !.ab[then_andb].goals = @ \o H6.ab[then_andb].body_goals, !.ab[then_andb].body_goals = <<>>]
       : H6 \in {mark_dead(H, else_andb)}} : TRUE)

_expand_if_then_else(H, a, cond, then, else_) ==
    LET c == Len(H.cb) + 1
        then_andb == Len(H.ab) + 1
        else_andb == Len(H.ab) + 2
    IN (CHOOSE the \in {(CHOOSE the \in {IF is_solved(H5, then_andb) /\ is_quiet(H5, then_andb)
                 THEN IF H5.ab[then_andb].body_goals # <<>>
                      THEN (CHOOSE the \in {[ok |-> TRUE, S |-> _try_andbox(H7, then_andb)]
                              : H7 \in {ThenCommitted(H5, then_andb, else_andb)}} : TRUE)
                      ELSE Res(TRUE, mark_dead(H5, else_andb))
                 ELSE [ok |-> TRUE, S |-> _try_andbox(H5, else_andb)]
               : H5 \in {_try_andbox(H4, then_andb)}} : TRUE)
          : H4 \in {IfThenElseBoxes(H, a, cond, then, else_)}} : TRUE)

\* A temporary and-box without a father; the solutions are saved and put
\* back, the trail is undone to where it was.
_try_negation(H, a, goal) ==
    LET trail_pos == trail_position(H)
        temp_andb == Len(H.ab) + 1
        env == Len(H.envs) + 1
    IN (CHOOSE the \in {(CHOOSE the \in {(CHOOSE the \in {Res(~(Len(H2.solutions) > 0
                  \/ (is_solved(H2, temp_andb) /\ ~is_dead(H2, temp_andb))),
                undo_trail(H3, trail_pos))
              : H3 \in {[H2 EXCEPT !.solutions = H.solutions, !.nlog = Append(@, [goal |-> ground_copy(H.cells, goal), succeeded |-> ~(Len(H2.solutions) > 0 \/ (is_solved(H2, temp_andb) /\ ~is_dead(H2, temp_andb)))])]}} : TRUE)
            : H2 \in {_try_andbox(H1, temp_andb)}} : TRUE)
          : H1 \in {[H EXCEPT !.envs = Append(@, H.ab[a].env), !.ab = Append(@, [AndBox(env) EXCEPT !.goals = <<goal>>]), !.solutions = <<>>]}} : TRUE)

_try_guard(H, a) ==
    LET chb == H.ab[a].father
        guard_type == H.cb[chb].guard_type
        can_promote ==
            IF guard_type = "NONE" THEN is_determinate(H, chb)
            ELSE IF guard_type = "COMMIT" THEN is_quiet(H, a)
            ELSE IF guard_type = "ARROW" THEN is_quiet(H, a) /\ H.ab[a].prev = 0
            ELSE IF guard_type = "CUT" THEN H.ab[a].prev = 0
            ELSE IF guard_type \in WAIT_GUARDS
                 THEN /\ is_determinate(H, chb)
                      /\ (guard_type = "QUIET_WAIT" => is_quiet(H, a))
            ELSE FALSE
        should_prune == guard_type \in {"COMMIT", "ARROW", "CUT"} /\ can_promote
    IN IF is_dead(H, a) THEN H
       ELSE IF chb = 0 THEN H
       ELSE IF H.cb[chb].father = 0
            THEN (CHOOSE the \in {mark_dead(H1, a)
                    : H1 \in {_record_solution(H, a)}} : TRUE)
       ELSE IF can_promote
            THEN (CHOOSE the \in {_promote_andbox(H1, a)
                    : H1 \in {IF should_prune THEN Stepped(_prune_siblings(H, a, guard_type)) ELSE H}} : TRUE)
       ELSE H

\* for var, value in andb.unifiers, from the i-th on; ok is false when
\* a unification failed and the parent was marked dead
\* A promotion that only marks the parent dead when a deferred pair fails
\* to unify differs from one that sends the parent down the failure path.
Discharged(H, a, parent, i, ok) ==
    [H EXCEPT !.xlog = Append(@, [andb |-> a, parent |-> parent,
                                  pair |-> H.ab[a].unifiers[i],
                                  external |-> is_external_var(H, H.ab[a].unifiers[i][1], parent),
                                  forwarded |-> Len(H.ab[parent].unifiers),
                                  ok |-> ok])]

DischargeUnifiers(H, a, parent, i) ==
    IF i > Len(H.ab[a].unifiers) THEN Res(TRUE, H)
    ELSE LET var == H.ab[a].unifiers[i][1]
             resolved == deref(H.cells, H.ab[a].unifiers[i][2])
         IN IF ~is_external_var(H, var, parent)
            THEN (CHOOSE the \in {IF ~r.ok THEN Res(FALSE, mark_dead(Discharged(r.S, a, parent, i, FALSE), parent))
                      ELSE DischargeUnifiers(Discharged(r.S, a, parent, i, TRUE), a, parent, i + 1)
                    : r \in {unify(H, var, resolved, TRUE, FALSE)}} : TRUE)
            ELSE (CHOOSE the \in {DischargeUnifiers(Discharged(H1, a, parent, i, TRUE), a, parent, i + 1)
                    : H1 \in {add_unifier(H, parent, var, resolved)}} : TRUE)

\* An emptied choice-box is unlinked from the chain of its father
UnlinkIfEmpty(H, chb, parent) ==
    LET p == H.cb[chb].prev
        n == H.cb[chb].next
    IN IF H.cb[chb].tried # 0 THEN H
       ELSE (CHOOSE the \in {IF n # 0 THEN [G1 EXCEPT !.cb[n].prev = p] ELSE G1
               : G1 \in {IF p # 0 THEN [H EXCEPT !.cb[p].next = n] ELSE [H EXCEPT !.ab[parent].tried = n]}} : TRUE)

\* What _promote_andbox was handed when it went ahead: the and-box, whether
\* it has goals left or a child choice-box, and whether its choice-box is
\* determinate.
PromoteLogged(H, a) ==
    [H EXCEPT !.plog = Append(@, [andb |-> a,
                                  status |-> H.ab[a].status,
                                  goals |-> H.ab[a].goals,
                                  tried |-> H.ab[a].tried,
                                  root |-> H.cb[H.ab[a].father].father = 0,
                                  determinate |-> is_determinate(H, H.ab[a].father)])]

\* _promote_andbox up to "Continue with parent": the local variables are
\* re-homed, the deferred pairs discharged, the body goals put in front of
\* the parent's and the and-box taken out; ok is false when a pair failed
\* A promotion that puts the body goals behind the parent's pending goals.
PromoteSteps_appending(H, a, chb, parent) ==
    (CHOOSE the \in {(CHOOSE the \in {IF ~r.ok THEN r
              ELSE Res(TRUE, (CHOOSE the \in {(CHOOSE the \in {UnlinkIfEmpty(H2, chb, parent)
                                : H2 \in {remove_alternative(H1, chb, a)}} : TRUE)
                              : H1 \in {[r.S EXCEPT !.ab[parent].goals = @ \o r.S.ab[a].body_goals,
                                               !.qlog = Append(@, [t |-> "promote", andb |-> parent,
                                                                   body |-> r.S.ab[a].body_goals,
                                                                   pending |-> r.S.ab[parent].goals])]}} : TRUE))
            : r \in {DischargeUnifiers(H0, a, parent, 1)}} : TRUE)
          : H0 \in {_rehome_local_vars(PromoteLogged(H, a), a, parent)}} : TRUE)

PromoteSteps(H, a, chb, parent) ==
    (CHOOSE the \in {(CHOOSE the \in {IF ~r.ok THEN r
              ELSE Res(TRUE, (CHOOSE the \in {(CHOOSE the \in {UnlinkIfEmpty(H2, chb, parent)
                                : H2 \in {remove_alternative(H1, chb, a)}} : TRUE)
                              : H1 \in {[r.S EXCEPT !.ab[parent].goals = r.S.ab[a].body_goals \o @,
                                               !.qlog = Append(@, [t |-> "promote", andb |-> parent,
                                                                   body |-> r.S.ab[a].body_goals,
                                                                   pending |-> r.S.ab[parent].goals])]}} : TRUE))
            : r \in {DischargeUnifiers(H0, a, parent, 1)}} : TRUE)
          : H0 \in {_rehome_local_vars(PromoteLogged(H, a), a, parent)}} : TRUE)

_promote_andbox(H, a) ==
    LET chb == H.ab[a].father
        parent == H.cb[chb].father
    IN IF is_dead(H, a) THEN H
       ELSE IF chb = 0 THEN H
       ELSE IF parent = 0
            THEN (CHOOSE the \in {mark_dead(H1, a)
                    : H1 \in {_record_solution(PromoteLogged(H, a), a)}} : TRUE)
       ELSE (CHOOSE the \in {IF ~r.ok THEN Stepped(r.S) ELSE _try_andbox(Stepped(r.S), parent)
               : r \in {PromoteSteps(H, a, chb, parent)}} : TRUE)

\* The failed and-box marked dead and taken out of its choice-box
FailedAlternative(H, a, chb) ==
    (CHOOSE the \in {Stepped(remove_alternative(H1, chb, a)) : H1 \in {mark_dead(H, a)}} : TRUE)

_propagate_failure(H, a) ==
    LET chb == H.ab[a].father
    IN IF chb = 0 THEN mark_dead(H, a)
       ELSE (CHOOSE the \in {IF H2.cb[chb].tried = 0
                 THEN IF H2.cb[chb].father # 0
                      THEN _propagate_failure(H2, H2.cb[chb].father) ELSE H2
                 ELSE IF is_determinate(H2, chb) THEN _try_andbox(H2, H2.cb[chb].tried)
                 ELSE H2
               : H2 \in {FailedAlternative(H, a, chb)}} : TRUE)

_is_stable(H, a) == is_stable(H, a)

\* getattr(parent_chb, 'guard_type', NONE) is always NONE
_is_candidate(H, a, parent_chb) ==
    LET guard_type == H.cb[parent_chb].guard_type
    IN IF ~is_solved(H, a) \/ H.ab[a].goals # <<>> THEN FALSE
       ELSE IF is_determinate(H, parent_chb) THEN FALSE
       ELSE IF guard_type \notin WAIT_GUARDS /\ guard_type # "NONE" THEN FALSE
       ELSE TRUE

\* _find_candidate(andb): depth-first, left to right; 0 is None
RECURSIVE _find_candidate(_, _)
RECURSIVE FindInChoiceBoxes(_, _)
RECURSIVE FindInAlternatives(_, _, _)

_find_candidate(H, a) == FindInChoiceBoxes(H, H.ab[a].tried)

FindInChoiceBoxes(H, chb) ==
    IF chb = 0 THEN 0
    ELSE LET found == FindInAlternatives(H, chb, H.cb[chb].tried)
         IN IF found # 0 THEN found ELSE FindInChoiceBoxes(H, H.cb[chb].next)

FindInAlternatives(H, chb, alt) ==
    IF alt = 0 THEN 0
    ELSE IF is_dead(H, alt) THEN FindInAlternatives(H, chb, H.ab[alt].next)
    ELSE IF _is_candidate(H, alt, chb) THEN alt
    ELSE LET child_cand == _find_candidate(H, alt)
         IN IF child_cand # 0 THEN child_cand
            ELSE FindInAlternatives(H, chb, H.ab[alt].next)

\* The choice-box / and-box of the copy at the position of the original
RECURSIVE _find_copied_fork(_, _, _, _)
_find_copied_fork(H, copy_fork, orig_fork, original_fork) ==
    IF copy_fork = 0 \/ orig_fork = 0 THEN 0
    ELSE IF orig_fork = original_fork THEN copy_fork
    ELSE _find_copied_fork(H, H.cb[copy_fork].next, H.cb[orig_fork].next, original_fork)

RECURSIVE _find_copied_candidate(_, _, _, _)
_find_copied_candidate(H, copy_alt, orig_alt, original_candidate) ==
    IF copy_alt = 0 \/ orig_alt = 0 THEN 0
    ELSE IF orig_alt = original_candidate THEN copy_alt
    ELSE _find_copied_candidate(H, H.ab[copy_alt].next, H.ab[orig_alt].next,
                                original_candidate)

\* "Remove all siblings of copied candidate": every other alternative of
\* the copied fork is unlinked and marked dead; next_alt is read first
RECURSIVE KeepOnlyCandidate(_, _, _, _)
KeepOnlyCandidate(H, copy_fork, copy_candidate, alt) ==
    IF alt = 0 THEN H
    ELSE (CHOOSE the \in {KeepOnlyCandidate(H1, copy_fork, copy_candidate, H.ab[alt].next)
            : H1 \in {IF alt # copy_candidate THEN mark_dead(remove_alternative(H, copy_fork, alt), alt) ELSE H}} : TRUE)

\* A faulty insertion that puts the copy to the right of the mother.
InsertLeftOfMother_right(H, mother, mother_copy) ==
    LET root_chb == H.ab[mother].father
        nx == H.ab[mother].next
        H1 == [H EXCEPT !.ab[mother_copy].father = root_chb,
                        !.ab[mother_copy].prev = mother,
                        !.ab[mother_copy].next = nx,
                        !.ab[mother].next = mother_copy]
    IN IF root_chb = 0 THEN H
       ELSE IF nx # 0 THEN [H1 EXCEPT !.ab[nx].prev = mother_copy] ELSE H1

\* "Insert copy to left of mother", done only when the mother has a father
InsertLeftOfMother(H, mother, mother_copy) ==
    LET root_chb == H.ab[mother].father
        pv == H.ab[mother].prev
        H1 == [H EXCEPT !.ab[mother_copy].father = root_chb,
                        !.ab[mother_copy].next = mother,
                        !.ab[mother_copy].prev = pv]
        H2 == IF pv # 0 THEN [H1 EXCEPT !.ab[pv].next = mother_copy]
              ELSE [H1 EXCEPT !.cb[root_chb].tried = mother_copy]
    IN IF root_chb = 0 THEN H
       ELSE [H2 EXCEPT !.ab[mother].prev = mother_copy]

\* The and-boxes below and-box m, m included, along the father links
RECURSIVE InSubtree(_, _, _)
InSubtree(H, a, m) ==
    IF a = m THEN TRUE
    ELSE IF H.ab[a].father = 0 THEN FALSE
    ELSE IF H.cb[H.ab[a].father].father = 0 THEN FALSE
    ELSE InSubtree(H, H.cb[H.ab[a].father].father, m)

\* The unbound variables that the goals, the body goals, the deferred pairs
\* and the local variables of and-box a lead to
BoxVars(H, a) ==
    LET box == H.ab[a]
    IN UNION ({RehomeVars(H.cells, box.goals[i]) : i \in 1..Len(box.goals)}
              \cup {RehomeVars(H.cells, box.body_goals[i]) : i \in 1..Len(box.body_goals)}
              \cup {RehomeVars(H.cells, box.unifiers[i][1]) : i \in 1..Len(box.unifiers)}
              \cup {RehomeVars(H.cells, box.unifiers[i][2]) : i \in 1..Len(box.unifiers)}
              \cup {RehomeVars(H.cells, Var(box.local_vars[i].var)) : i \in 1..Len(box.local_vars)})

TreeVars(H, m) == UNION {BoxVars(H, a) : a \in {b \in 1..Len(H.ab) : InSubtree(H, b, m)}}

\* The local variables of the mother whose cell differs between two heaps
\* The pairs <<v, a>> where and-box a, one of boxes, has a suspension in
\* the suspension list of cell v
SuspendedOn(cells, boxes) ==
    {p \in (1..Len(cells)) \X boxes :
        \E i \in 1..Len(cells[p[1]].susp) : cells[p[1]].susp[i] = Susp("ANDBOX", p[2])}

OrigChanged(H, Hf, locals) == {v \in locals : Hf.cells[v].binding # H.cells[v].binding}

\* What a split did to the tree, taken before the copied candidate is
\* promoted: the alternatives of the mother's father, of the fork and of
\* the copied fork, before and after.
SplitEvent(H, H2, candidate, fork, mother, K, copy_fork, copy_candidate) ==
    LET P == H.ab[mother].father
    IN [candidate_solved |-> is_solved(H, candidate) /\ H.ab[candidate].goals = <<>>,
        candidate_status |-> H.ab[candidate].status,
        mother_status |-> H.ab[mother].status,
        cells_before |-> Len(H.cells),
        orig_vars |-> TreeVars(H, mother),
        local_vars |-> {v \in TreeVars(H, mother) :
                           H.cells[v].con /\ is_ancestor_of(H.envs, H.ab[mother].env, H.cells[v].env)},
        copy_vars |-> TreeVars(K.H, K.r),
        var_map |-> K.vm,
        orig_changed |-> {},
        query_vars |-> {H.query_vars[j].var : j \in 1..Len(H.query_vars)},
        ref_changed |-> {},
        andbox_map |-> K.am,
        suspended |-> SuspendedOn(H.cells, DOMAIN K.am),
        registered |-> SuspendedOn(K.H.cells, {K.am[a] : a \in DOMAIN K.am}),
        candidate |-> candidate, fork |-> fork, mother |-> mother,
        parent |-> P, mother_copy |-> K.r, boxes |-> Len(H.ab),
        candidate_copy |-> K.am[candidate], copy_candidate |-> copy_candidate,
        parent_before |-> IF P = 0 THEN <<>> ELSE alternatives(H, H.cb[P].tried),
        parent_after |-> IF P = 0 THEN <<>> ELSE alternatives(H2, H2.cb[P].tried),
        fork_before |-> alternatives(H, H.cb[fork].tried),
        fork_after |-> alternatives(H2, H2.cb[fork].tried),
        copy_fork_father |-> H2.cb[copy_fork].father,
        copy_fork_after |-> alternatives(H2, H2.cb[copy_fork].tried)]

\* _do_split up to "Promote the copied candidate": the copy of the mother
\* with the candidate alone in its fork, linked left of the mother, the
\* candidate taken out of the original and the follow-up task queued; go is
\* false when the copied fork or candidate was not found
SplitSteps(H, candidate, fork, mother, K, copy_fork, copy_candidate) ==
    (CHOOSE the \in {(CHOOSE the \in {(CHOOSE the \in {(CHOOSE the \in {(CHOOSE the \in {[H4 EXCEPT !.slog = Append(@, SplitEvent(H, H3, candidate, fork, mother, K, copy_fork, copy_candidate)), !.linked = @ /\ WellLinked(H4)]
                      : H4 \in {IF is_determinate(H3, fork) THEN queue_promote(H3, H3.cb[fork].tried) ELSE IF is_stable(H3, mother) THEN queue_split(H3, mother) ELSE H3}} : TRUE)
                    : H3 \in {mark_dead(H2a, candidate)}} : TRUE)
                  : H2a \in {remove_alternative(H2, fork, candidate)}} : TRUE)
                : H2 \in {InsertLeftOfMother(H1, mother, K.r)}} : TRUE)
              : H1 \in {KeepOnlyCandidate(K.H, copy_fork, copy_candidate, K.H.cb[copy_fork].tried)}} : TRUE)

SplitCopy(H, candidate, fork, mother) ==
    (CHOOSE the \in {(CHOOSE the \in {IF copy_fork = 0 THEN [go |-> FALSE, H |-> K.H, copy_candidate |-> 0]
              ELSE (CHOOSE the \in {IF copy_candidate = 0
                        THEN [go |-> FALSE, H |-> K.H, copy_candidate |-> 0]
                        ELSE [go |-> TRUE,
                              H |-> SplitSteps(H, candidate, fork, mother, K, copy_fork, copy_candidate),
                              copy_candidate |-> copy_candidate]
                      : copy_candidate \in {_find_copied_candidate(K.H, K.H.cb[copy_fork].tried, K.H.cb[fork].tried, candidate)}} : TRUE)
            : copy_fork \in {_find_copied_fork(K.H, K.H.ab[K.r].tried, K.H.ab[mother].tried, fork)}} : TRUE)
          : K \in {copy_andbox_subtree(H, mother)}} : TRUE)

\* A split that leaves the tree as it is.
_do_split_idle(H, candidate) == H

_do_split(H, candidate) ==
    LET fork == H.ab[candidate].father
        mother == H.cb[fork].father
    IN IF fork = 0 THEN H
       ELSE IF mother = 0 THEN H
       ELSE (CHOOSE the \in {IF ~P.go THEN P.H
                 ELSE (CHOOSE the \in {[Hf EXCEPT !.slog[Len(P.H.slog)].orig_changed = OrigChanged(H, Hf, P.H.slog[Len(P.H.slog)].local_vars),
                                            !.slog[Len(P.H.slog)].ref_changed = OrigChanged(H, Hf, P.H.slog[Len(P.H.slog)].orig_vars \cup P.H.slog[Len(P.H.slog)].query_vars)]
                         : Hf \in {_promote_andbox(P.H, P.copy_candidate)}} : TRUE)
               : P \in {SplitCopy(H, candidate, fork, mother)}} : TRUE)

\* _try_split: the first live, stable alternative of the root choice-box
\* with a candidate below it; 0 when there is none
RECURSIVE SplitCandidate(_, _)
SplitCandidate(H, root_andb) ==
    IF root_andb = 0 THEN 0
    ELSE IF is_dead(H, root_andb) THEN SplitCandidate(H, H.ab[root_andb].next)
    ELSE IF _is_stable(H, root_andb)
         THEN (CHOOSE the \in {IF candidate # 0 THEN candidate
                   ELSE SplitCandidate(H, H.ab[root_andb].next)
                 : candidate \in {_find_candidate(H, root_andb)}} : TRUE)
    ELSE SplitCandidate(H, H.ab[root_andb].next)

\* A deferred pair whose two sides are by now different atoms
Conflicting(cells, pair) ==
    /\ deref(cells, pair[1]).k = "atom"
    /\ deref(cells, pair[2]).k = "atom"
    /\ deref(cells, pair[1]) # deref(cells, pair[2])

HasConflict(H, a) ==
    \E i \in 1..Len(H.ab[a].unifiers) : Conflicting(H.cells, H.ab[a].unifiers[i])

\* The record of one and-box that _process_wake re-tried: whether one of
\* its deferred pairs was in conflict when it was taken from the queue, and
\* its status once _try_andbox had returned.
WakeLogged(H, H2, a) ==
    [H2 EXCEPT !.wlog = Append(@, [andb |-> a, conflict |-> HasConflict(H, a),
                                   unifiers |-> Len(H.ab[a].unifiers),
                                   tasks |-> Len(H.tasks),
                                   waiting |-> Len(H.wake),
                                   status |-> H2.ab[a].status])]

\* A worker that takes the and-box placed last
_process_wake_newest(H) ==
    (CHOOSE the \in {IF is_dead(H1, H.wake[Len(H.wake)]) THEN H1
         ELSE WakeLogged(H1, _try_andbox(H1, H.wake[Len(H.wake)]), H.wake[Len(H.wake)])
       : H1 \in {[H EXCEPT !.wake = SubSeq(@, 1, Len(@) - 1), !.wdeq = Append(@, [andb |-> H.wake[Len(H.wake)], dead |-> is_dead(H, H.wake[Len(H.wake)])])]}} : TRUE)

\* _process_wake after the queue was found non-empty
_process_wake(H) ==
    (CHOOSE the \in {IF is_dead(H1, Head(H.wake)) THEN H1
         ELSE WakeLogged(H1, _try_andbox(H1, Head(H.wake)), Head(H.wake))
       : H1 \in {[H EXCEPT !.wake = Tail(@), !.wdeq = Append(@, [andb |-> Head(H.wake), dead |-> is_dead(H, Head(H.wake))])]}} : TRUE)

\* _process_tasks after a task was found
_process_tasks(H) ==
    LET task == Head(H.tasks)
    IN (CHOOSE the \in {IF task.type = "START"
            THEN IF H1.root # 0 /\ H1.cb[H1.root].tried # 0
                 THEN _try_andbox(H1, H1.cb[H1.root].tried) ELSE H1
            ELSE IF task.type = "PROMOTE"
                 THEN IF task.andbox # 0 /\ ~is_dead(H1, task.andbox)
                      THEN _promote_andbox(H1, task.andbox) ELSE H1
            ELSE IF task.type = "SPLIT"
                 THEN IF task.andbox # 0 /\ ~is_dead(H1, task.andbox)
                      THEN _do_split(H1, task.andbox) ELSE H1
            ELSE H1
          : H1 \in {[H EXCEPT !.tasks = Tail(@)]}} : TRUE)

\* AKLWorker(program).solve(goal) up to the call of _run
solve(program, goal, cells) ==
    (CHOOSE the \in {(CHOOSE the \in {[H1 EXCEPT !.ab[1].local_vars = qv]
         : H1 \in {create_root([program |-> program, cells |-> cells, envs |-> <<>>, ab |-> <<>>, cb |-> <<>>, trail |-> <<>>, wake |-> <<>>, recall |-> <<>>, tasks |-> <<>>, root |-> 0, query_vars |-> qv, solutions |-> <<>>, ulog |-> <<>>, slog |-> <<>>, plog |-> <<>>, wlog |-> <<>>, nlog |-> <<>>, hlog |-> <<>>, xlog |-> <<>>, qlog |-> <<>>, elog |-> <<>>, linked |-> TRUE, wdeq |-> <<>>, dlog |-> <<>>, rlog |-> <<>>], goal)}} : TRUE)
       : qv \in {_collect_query_vars(cells, goal, <<>>)}} : TRUE)

\* ------------------------------------------------------------------------
\* The worker on one program and a family of goals.  One step is one round
\* of the loop of _run: wake first, then recall, then tasks, then a split.
\* No choice-box is ever suspended on a variable by the worker, so the
\* recall queue stays empty and _process_recall always answers false.
\* ------------------------------------------------------------------------
WProgram ==
    << Fact(P1("p", A("a"))), Fact(P1("p", A("b"))), Fact(P1("p", A("c"))),
       Fact(P1("t", A("a"))), Fact(P1("t", A("b"))),
       Clause(P1("r", TV("Z")), None, "NONE",
              <<P2(";", P2("=", TV("Z"), A("a")), P2("=", TV("Z"), A("b")))>>),
       Clause(P1("n", TV("Z")), None, "NONE",
              <<P2(";", P2("=", P1("f", TV("Z")), P1("f", A("a"))),
                        P2("=", TV("Z"), A("b")))>>),
       Clause(P1("m", TV("Z")), A("true"), "WAIT", <<P1("t", TV("Z"))>>),
       Fact(P1("m", A("c"))),
       Clause(A("k"), A("true"), "COMMIT", <<A("true")>>),
       Clause(A("k"), A("true"), "COMMIT", <<A("true")>>),
       Clause(P1("s", TV("Z")), None, "NONE",
              <<P2(";", P1("t", TV("Z")), P1("p", TV("Z")))>>),
       Clause(P1("u", TV("Z")), None, "NONE",
              <<P2(";", P2(",", P1("t", A("c")), P2("=", TV("Z"), A("a"))),
                        P2("=", TV("Z"), A("b")))>>) >>

GoalFacts3 == P1("p", QX)
GoalFacts2 == P1("t", QX)
GoalDeferred == P1("r", QX)
GoalNested == P1("n", QX)
GoalInner == P2(";", P1("t", QX), P1("p", QY))
GoalShared == P1("s", QX)
GoalCommit == A("k")
GoalArm == P2(";", P2("=", QX, A("a")), P1("p", QY))
GoalFailedArm == P1("u", QX)
GoalConflict == P2(",", P1("r", QX), P2("=", QX, A("c")))
GoalNotFact == P1("\\+", P1("p", A("a")))
GoalWakeAndTask == P2(";", P1("t", QX), P1("r", QX))

WGoals ==
    { GoalFacts3, GoalFacts2, GoalDeferred, GoalNested, GoalInner, GoalShared,
      GoalArm, GoalCommit, GoalConflict, GoalFailedArm, GoalWakeAndTask, GoalNotFact,
      P1("m", QX),
      P1("p", A("b")),
      P2(",", P1("p", QX), P1("t", QY)),
      P2(",", P1("t", QX), P1("t", QY)),
      P2(",", P1("p", QX), P2("=", QX, A("b"))),
      P2(",", P1("r", QX), P1("t", QY)),
      P2(";", P1("r", QX), P1("n", QY)),
      P2(",", P1("t", QX), P1("\\+", P1("p", QX))),
      P2(";", P2("->", P1("t", QX), P2("=", QY, QX)), P2("=", QY, A("n"))),
      P2(";", P2("->", A("fail"), P2("=", QY, A("a"))), P1("m", QY)),
      P2(",", P1("m", QX), P1("t", QY)),
      P2(",", P1("r", QX), P1("p", QX)) }

\* The query variables X and Y as the parser makes them: plain Vars.
WCells == <<NewCell("X", FALSE, 0), NewCell("Y", FALSE, 0)>>

WInit ==
    /\ \E g \in WGoals :
           /\ wgoal = g
           /\ wh = solve(WProgram, g, WCells)
    /\ wret = [done |-> FALSE, solutions |-> <<>>, rounds |-> 0]
    /\ UIdle
    /\ IIdle
    /\ BIdle

\* The rounds of the loop of _run that solve may take here
MaxRounds == 16

\* One more round of "while True" in _run was taken
Round(ret) == [ret EXCEPT !.rounds = @ + 1]

ProcessWake ==
    /\ ~wret.done
    /\ wret.rounds < MaxRounds
    /\ wh.wake # <<>>
    /\ wh' = _process_wake(wh)
    /\ wret' = Round(wret)
    /\ UNCHANGED <<wgoal, uvars, ivars, bvars>>

\* A round that takes a task without looking at the wake queue
ProcessTasksUnordered ==
    /\ ~wret.done
    /\ wret.rounds < MaxRounds
    /\ wh.tasks # <<>>
    /\ wh' = _process_tasks(wh)
    /\ wret' = Round(wret)
    /\ UNCHANGED <<wgoal, uvars, ivars, bvars>>

ProcessTasks ==
    /\ ~wret.done
    /\ wret.rounds < MaxRounds
    /\ wh.wake = <<>> /\ wh.recall = <<>>
    /\ wh.tasks # <<>>
    /\ wh' = _process_tasks(wh)
    /\ wret' = Round(wret)
    /\ UNCHANGED <<wgoal, uvars, ivars, bvars>>

TrySplit ==
    /\ ~wret.done
    /\ wret.rounds < MaxRounds
    /\ wh.wake = <<>> /\ wh.recall = <<>> /\ wh.tasks = <<>>
    /\ wh.root # 0
    /\ SplitCandidate(wh, wh.cb[wh.root].tried) # 0
    /\ wh' = _do_split(wh, SplitCandidate(wh, wh.cb[wh.root].tried))
    /\ wret' = Round(wret)
    /\ UNCHANGED <<wgoal, uvars, ivars, bvars>>

\* No more work: _run breaks and solve returns self.solutions
SolveReturn ==
    /\ ~wret.done
    /\ wh.wake = <<>> /\ wh.recall = <<>> /\ wh.tasks = <<>>
    /\ wh.root = 0 \/ SplitCandidate(wh, wh.cb[wh.root].tried) = 0
    /\ wret' = [wret EXCEPT !.done = TRUE, !.solutions = wh.solutions]
    /\ UNCHANGED <<wgoal, wh, uvars, ivars, bvars>>

WNext ==
    \/ ProcessWake
    \/ ProcessTasks
    \/ TrySplit
    \/ SolveReturn

SpecW == WInit /\ [][WNext]_vars

\* _run is a loop that tests the wake queue first in every round and goes
\* round again after every round that found work: while the wake queue is
\* not empty the round of _process_wake is taken.
SpecWFair == SpecW /\ WF_vars(ProcessWake)

\* _run is "while True": as long as solve has not returned, the loop goes
\* into a further round, and when a round finds no work it breaks and solve
\* returns.
NextRound == ~wret.done /\ wret' = Round(wret)

SpecWRun == SpecW /\ WF_wret(NextRound) /\ WF_vars(SolveReturn)

\* ------------------------------------------------------------------------
\* Properties of the worker
\* ------------------------------------------------------------------------

\* C4: a =/2 goal run inside an and-box never writes the binding of a
\* variable external to that and-box, also when the external variable is
\* nested inside a compound argument; when it meets one, the pair
\* (variable, term) is appended to the deferred unifiers of the and-box,
\* the and-box is left UNSTABLE and a suspension for the and-box is
\* registered on the variable.
C4_ExternalBindingDeferred ==
    \A i \in 1..Len(wh.ulog) :
        LET e == wh.ulog[i]
        IN /\ e.written = {}
           /\ e.ext # {} =>
                  /\ e.deferred
                  /\ Len(e.appended) = 1
                  /\ e.appended[1][1] = Var(e.var)
                  /\ e.status = "UNSTABLE"
                  /\ e.suspended

\* C8: on the facts p(a). p(b). p(c). the query p(X) returns exactly the
\* three solutions X = a, X = b, X = c in declaration order, and on the
\* facts t(a). t(b). the query t(X) returns X = a, X = b.
C8_FactsEnumeratedInOrder ==
    wret.done =>
        /\ wgoal = GoalFacts3 =>
               wret.solutions = <<Sol("X", A("a")), Sol("X", A("b")), Sol("X", A("c"))>>
        /\ wgoal = GoalFacts2 =>
               wret.solutions = <<Sol("X", A("a")), Sol("X", A("b"))>>

\* C10: a split of candidate C under choice-box F under mother M puts
\* exactly one new and-box, the copy of M, immediately to the left of M
\* among the alternatives of the parent of M, leaves in the copied F only
\* the copy of C, and takes C and only C out of F, the other alternatives
\* of F keeping their order.
C10_SplitStructure ==
    \A i \in 1..Len(wh.slog) :
        LET e == wh.slog[i]
            at(s, x) == CHOOSE j \in 1..Len(s) : s[j] = x
            without(s, j) == SubSeq(s, 1, j - 1) \o SubSeq(s, j + 1, Len(s))
            pm == at(e.parent_after, e.mother)
        IN /\ e.mother_copy > e.boxes
           /\ \E j \in 1..Len(e.parent_before) : e.parent_before[j] = e.mother
           /\ Len(e.parent_after) = Len(e.parent_before) + 1
           /\ pm > 1
           /\ e.parent_after[pm - 1] = e.mother_copy
           /\ without(e.parent_after, pm - 1) = e.parent_before
           /\ e.copy_fork_father = e.mother_copy
           /\ e.copy_candidate = e.candidate_copy
           /\ e.copy_fork_after = <<e.candidate_copy>>
           /\ \E j \in 1..Len(e.fork_before) : e.fork_before[j] = e.candidate
           /\ e.fork_after = without(e.fork_before, at(e.fork_before, e.candidate))

\* A split below the root and-box: the mother has a sibling to its left,
\* and the fork keeps two alternatives after the candidate has left.
C10_Witness ==
    \E i \in 1..Len(wh.slog) :
        /\ wh.slog[i].mother # 1
        /\ wh.slog[i].parent_before[1] # wh.slog[i].mother
        /\ Len(wh.slog[i].fork_after) = 2


\* C11: the copy made by a split gives every unbound variable whose env
\* lies inside the subtree of the mother a fresh cell of its own and shares
\* every variable whose env lies outside, so the copy refers to no local
\* cell of the original, and the promotion of the copied candidate, which
\* binds copied variables, changes the binding of no local variable of the
\* original.
C11_CopyLocalsFreshExternalsShared ==
    \A i \in 1..Len(wh.slog) :
        LET e == wh.slog[i]
            old == {v \in e.copy_vars : v <= e.cells_before}
        IN /\ e.local_vars \subseteq DOMAIN e.var_map
           /\ \A v \in e.local_vars :
                  /\ e.var_map[v] > e.cells_before
                  /\ e.var_map[v] \in e.copy_vars
                  /\ \A w \in e.local_vars : e.var_map[w] = e.var_map[v] => w = v
           /\ e.copy_vars \cap e.local_vars = {}
           /\ {v \in old : wh.cells[v].con} =
                  {v \in e.orig_vars \ e.local_vars : wh.cells[v].con}
           /\ e.orig_changed = {}

\* A split whose copied local variable is bound while the original is still
\* unbound, and a split whose mother refers to a variable of an outer env.
C11_Witness ==
    /\ \E i \in 1..Len(wh.slog) : \E v \in wh.slog[i].local_vars :
           /\ wh.cells[wh.slog[i].var_map[v]].binding # None
           /\ wh.cells[v].binding = None
    /\ \E i \in 1..Len(wh.slog) : \E v \in wh.slog[i].orig_vars \ wh.slog[i].local_vars :
           /\ wh.cells[v].con
           /\ v \in wh.slog[i].copy_vars

\* C12: every and-box that _do_split splits, found by the scan of the idle
\* tree or named by a queued SPLIT task, is a candidate: it is solved (no
\* goals, no child choice-box), its choice-box has a wait guard or none and
\* is not determinate, and its mother is stable.  No choice-box carries a
\* guard kind, so the guard condition is met by every choice-box.
C12_SplitOnlyCandidates ==
    \A i \in 1..Len(wh.slog) :
        /\ wh.slog[i].candidate_solved
        /\ Len(wh.slog[i].fork_before) >= 2
        /\ wh.slog[i].mother_status = "STABLE"

\* C13: _promote_andbox goes ahead only on an and-box that is solved (no
\* goal left, no child choice-box) and, below the root, meets the commit
\* rule of its guard, which without a guard kind is a determinate
\* choice-box; so the alternative left alone in a fork by a split is not
\* promoted while it has a child choice-box.
C13_PromoteOnlySolved ==
    \A i \in 1..Len(wh.plog) :
        /\ wh.plog[i].goals = <<>>
        /\ wh.plog[i].tried = 0
        /\ ~wh.plog[i].root => wh.plog[i].determinate

\* C14: the choice-box made for a call of a user predicate carries the
\* guard kind of the clauses of that predicate, so the guard test applies
\* the rule of that kind: on k :- true | true. twice, the first alternative,
\* solved and quiet, is promoted and its sibling killed, and the query k has
\* one solution.
C14_GuardKindRecorded ==
    /\ \A c \in 1..Len(wh.cb) :
           wh.cb[c].predicate # None =>
               wh.cb[c].guard_type =
                   get_clauses(WProgram, wh.cb[c].predicate[1], wh.cb[c].predicate[2])[1].guard_type
    /\ (wret.done /\ wgoal = GoalCommit) => Len(wret.solutions) = 1

\* C15: an and-box holding a deferred pair on a variable that was bound
\* meanwhile is taken from the wake queue and its pair is tried again, so
\* that a woken and-box whose pair is in conflict with the binding fails:
\* when the worker halts, no and-box that was woken with a conflicting pair,
\* and still holds one, is anything but DEAD.
C15_WokenConflictFails ==
    wret.done =>
        \A i \in 1..Len(wh.wlog) :
            (wh.wlog[i].conflict /\ HasConflict(wh, wh.wlog[i].andb))
                => wh.ab[wh.wlog[i].andb].status = "DEAD"

\* C16: DEAD is terminal: no operation changes the status of an and-box
\* that is DEAD; a =/2 goal that finds its and-box DEAD (and may defer a
\* pair, suspend on the variable and call mark_unstable) leaves it DEAD.
C16_DeadIsTerminal ==
    \A i \in 1..Len(wh.ulog) :
        wh.ulog[i].before = "DEAD" => wh.ulog[i].status = "DEAD"

\* C17: the worker never dispatches a goal of, promotes, splits or records
\* a solution from an and-box that is DEAD: every goal popped by a goal
\* loop, every promotion that went ahead, every split and every recorded
\* solution found its and-box not DEAD.
C17_NoWorkOnDead ==
    /\ \A i \in 1..Len(wh.dlog) : wh.dlog[i].status # "DEAD"
    /\ \A i \in 1..Len(wh.plog) : wh.plog[i].status # "DEAD"
    /\ \A i \in 1..Len(wh.slog) :
           /\ wh.slog[i].candidate_status # "DEAD"
           /\ wh.slog[i].mother_status # "DEAD"
    /\ \A i \in 1..Len(wh.rlog) : wh.rlog[i].status # "DEAD"

\* The and-boxes and choice-boxes linked into the tree under the root
\* choice-box: from a choice-box its first alternative and its next
\* sibling, from an and-box its first child choice-box and its next sibling.
LinkStep(H, S) ==
    S \cup {<<"ab", H.cb[n[2]].tried>> : n \in {m \in S : m[1] = "cb" /\ H.cb[m[2]].tried # 0}}
      \cup {<<"cb", H.cb[n[2]].next>> : n \in {m \in S : m[1] = "cb" /\ H.cb[m[2]].next # 0}}
      \cup {<<"cb", H.ab[n[2]].tried>> : n \in {m \in S : m[1] = "ab" /\ H.ab[m[2]].tried # 0}}
      \cup {<<"ab", H.ab[n[2]].next>> : n \in {m \in S : m[1] = "ab" /\ H.ab[m[2]].next # 0}}

RECURSIVE LinkClosure(_, _)
LinkClosure(H, S) ==
    (CHOOSE the \in {IF T = S THEN S ELSE LinkClosure(H, T) : T \in {LinkStep(H, S)}} : TRUE)

LinkedDead(H) ==
    IF H.root = 0 THEN {}
    ELSE {n \in LinkClosure(H, {<<"cb", H.root>>}) : n[1] = "ab" /\ H.ab[n[2]].status = "DEAD"}

\* C18: after every round of the worker that completed a promotion or a
\* split, no and-box linked into the tree under the root choice-box is
\* DEAD.
C18_NoLinkedDead ==
    [][(Len(wh'.plog) > Len(wh.plog) \/ Len(wh'.slog) > Len(wh.slog))
          => LinkedDead(wh') = {}]_vars

\* C19: in the Interpreter commit happens when the guard succeeds, before
\* the body runs: once the guard of a clause with a pruning guard has
\* succeeded and been accepted, no later clause of the same call is tried,
\* whatever the body then does.
C19_CommitBeforeBody ==
    \A j, k \in DOMAIN im.clog :
        (/\ j < k
         /\ im.clog[j].e = "guard"
         /\ im.clog[j].guard_type \in PRUNING_GUARDS
         /\ im.clog[k].e = "try"
         /\ im.clog[k].call = im.clog[j].call)
            => im.clog[k].idx <= im.clog[j].idx
\* The and-boxes linked into the tree that are solved alternatives of a
\* choice-box with several alternatives and a wait-class guard, under a
\* stable mother and-box.
Candidates(H) ==
    IF H.root = 0 THEN {}
    ELSE {n \in LinkClosure(H, {<<"cb", H.root>>}) :
            /\ n[1] = "ab"
            /\ ~is_dead(H, n[2])
            /\ H.ab[n[2]].father # 0
            /\ _is_candidate(H, n[2], H.ab[n[2]].father)
            /\ H.cb[H.ab[n[2]].father].father # 0
            /\ is_stable(H, H.cb[H.ab[n[2]].father].father)}

\* C20: every round of the worker's loop handles one source of work, the
\* first that has any: the head of the wake queue when that queue is not
\* empty, otherwise (the recall queue being empty) the head of the task
\* queue, otherwise the split of the candidate the search finds; the loop
\* halts only when the three queues are empty and the tree holds no split
\* candidate.
C20_LoopPriority ==
    [][/\ wh.wake # <<>> => (wh' = _process_wake(wh) /\ wret' = Round(wret))
       /\ (wh.wake = <<>> /\ wh.recall = <<>> /\ wh.tasks # <<>>)
              => (wh' = _process_tasks(wh) /\ wret' = Round(wret))
       /\ (wh.wake = <<>> /\ wh.recall = <<>> /\ wh.tasks = <<>> /\ ~wret'.done)
              => (/\ Candidates(wh) # {}
                  /\ wh' = _do_split(wh, SplitCandidate(wh, wh.cb[wh.root].tried)))
       /\ wret'.done
              => (/\ wh.wake = <<>> /\ wh.recall = <<>> /\ wh.tasks = <<>>
                  /\ Candidates(wh) = {}
                  /\ wh' = wh)]_vars

\* A run that came to a round with both a woken and-box and a task waiting,
\* and has halted.
C20_Witness ==
    /\ wret.done
    /\ \E i \in 1..Len(wh.wlog) : wh.wlog[i].tasks > 0

\* The and-boxes placed on the wake queue so far, in the order of their
\* placing: those taken from it, then those still on it.
RECURSIVE DequeuedBoxes(_)
DequeuedBoxes(log) ==
    IF log = <<>> THEN <<>> ELSE <<Head(log).andb>> \o DequeuedBoxes(Tail(log))

Enqueued(H) == DequeuedBoxes(H.wdeq) \o H.wake

IsPrefix(s, t) == Len(s) <= Len(t) /\ SubSeq(t, 1, Len(s)) = s

MaxWoken == 4

\* C21: the and-boxes are taken from the wake queue in the order in which
\* they were placed on it (what was placed so far only ever grows at its
\* end, and what was taken is its beginning), and every and-box placed on
\* the queue is in the end taken from it, to be resumed or skipped as DEAD.
C21_WakeFifoNoStarvation ==
    /\ [][/\ IsPrefix(Enqueued(wh), Enqueued(wh'))
          /\ Len(Enqueued(wh')) <= MaxWoken]_vars
    /\ \A k \in 1..MaxWoken : (Len(Enqueued(wh)) >= k) ~> (Len(wh.wdeq) >= k)

\* A halted run in which two and-boxes were on the wake queue together
\* and both were taken from it.
C21_Witness ==
    /\ wret.done
    /\ Len(wh.wdeq) >= 2
    /\ \E i \in 1..Len(wh.wlog) : wh.wlog[i].waiting > 0

\* The cells of H whose env is another one in H2
EnvChanged(H, H2) == {v \in 1..Len(H.cells) : H2.cells[v].env # H.cells[v].env}

\* C22: in every round of the worker, a cell that exists at its start has
\* another env at its end only if the round promoted an and-box and
\* re-homed the cell, and every re-homing moves a cell from the env of the
\* promoted and-box to the parent of that env; copying for a split leaves
\* the env of every existing cell alone.
C22_EnvOnlyRehomedUpward ==
    [][/\ \A v \in EnvChanged(wh, wh') :
              /\ Len(wh'.plog) > Len(wh.plog)
              /\ \E i \in (Len(wh.hlog) + 1)..Len(wh'.hlog) : wh'.hlog[i].cell = v
              /\ is_ancestor_of(wh'.envs, wh'.cells[v].env, wh.cells[v].env)
       /\ \A i \in (Len(wh.hlog) + 1)..Len(wh'.hlog) :
              /\ wh'.hlog[i].to # wh'.hlog[i].from
              /\ wh'.hlog[i].to = wh'.envs[wh'.hlog[i].from]]_vars

\* A halted run that re-homed a cell in a promotion and also copied a
\* subtree for a split.
C22_Witness ==
    /\ wret.done
    /\ Len(wh.hlog) > 0
    /\ Len(wh.slog) > 0

\* C23: for every ConstrainedVar v and and-box a of the worker's tree,
\* is_local_var(v, a) holds exactly when the env of v is the env of a or a
\* descendant of it, and is_external_var(v, a) holds exactly when
\* is_local_var(v, a) does not.
C23_LocalXorExternal ==
    \A a \in 1..Len(wh.ab), v \in 1..Len(wh.cells) :
        wh.cells[v].con =>
            /\ is_local_var(wh, Var(v), a)
                   <=> is_ancestor_of(wh.envs, wh.ab[a].env, wh.cells[v].env)
            /\ is_external_var(wh, Var(v), a) <=> ~is_local_var(wh, Var(v), a)

\* The negation frame that has just been answered by the generator of its
\* goal: a first solution ("yield") or none ("done").
NegationAnswer ==
    /\ IRunning
    /\ im.stk[im.at].k = "neg"
    /\ im.stk[im.at].pc = "G"
    /\ im.sig \in {"yield", "done"}

ClausesFor(goal) ==
    {i \in DOMAIN WProgram : /\ WProgram[i].head.k = "str"
                             /\ WProgram[i].head.f = goal.f
                             /\ Len(WProgram[i].head.args) = Len(goal.args)}

GroundFacts(goal) ==
    /\ ClausesFor(goal) # {}
    /\ \A i \in ClausesFor(goal) :
           /\ WProgram[i].guard = None /\ WProgram[i].body = <<>>
           /\ \A j \in DOMAIN goal.args : WProgram[i].head.args[j].k = "atom"

\* A call of a predicate of ground facts has a solution when one fact
\* agrees with it in every argument that is not an unbound variable.
HasSolution(goal) ==
    \E i \in ClausesFor(goal) :
        \A j \in DOMAIN goal.args :
            goal.args[j].k = "var" \/ goal.args[j] = WProgram[i].head.args[j]

\* C25: in AKLWorker a negation \+ G whose goal is a call of a predicate of
\* ground facts succeeds exactly when no fact agrees with the call.
C25_WorkerNegationInverts ==
    \A i \in 1..Len(wh.nlog) :
        (wh.nlog[i].goal.k = "str" /\ GroundFacts(wh.nlog[i].goal))
            => (wh.nlog[i].succeeded <=> ~HasSolution(wh.nlog[i].goal))

\* The if-then-else frame at which the interpreter stands
AtIfThenElse == IRunning /\ im.stk[im.at].k = "ite"

\* The goal of the generator that the step has just started
Started == im'.stk[Len(im'.stk)].goal

QueueBefore(e) == IF e.t = "goal" THEN <<e.popped>> \o e.rest ELSE e.pending
QueueAfter(e) == IF e.t = "goal" THEN e.operands \o e.rest ELSE e.body \o e.pending

NextFor(log, i) ==
    {j \in (i + 1)..Len(log) :
        /\ log[j].andb = log[i].andb
        /\ \A k \in (i + 1)..(j - 1) : log[k].andb # log[i].andb}

C32_DischargeFailureFailsParent ==
    [][\A i \in (Len(wh.xlog) + 1)..Len(wh'.xlog) :
           LET e == wh'.xlog[i]
               chb == wh'.ab[e.parent].father
           IN /\ e.external => e.ok
              /\ ~e.ok =>
                    /\ is_dead(wh', e.parent)
                    /\ chb # 0 =>
                          /\ \A j \in DOMAIN alternatives(wh', wh'.cb[chb].tried) :
                                 alternatives(wh', wh'.cb[chb].tried)[j] # e.parent
                          /\ (wh'.cb[chb].tried = 0 /\ wh'.cb[chb].father # 0) =>
                                 is_dead(wh', wh'.cb[chb].father)]_vars

\* C31: can_unify and \=/2 have no side effects: after the call every
\* variable has the binding and the suspension list it had before, and
\* nothing has been added to the wake or the recall queue of the engine.
C31_TestsLeaveNoTrace ==
    [][ulast'.op \in {"can_unify", "not_unify"} =>
           /\ ucells' = ucells
           /\ uex'.wake = uex.wake
           /\ uex'.recall = uex.recall]_vars

\* ------------------------------------------------------------------------
\* Builtins (builtin.py) called on one ExState.  A call answers true or
\* false, or an exception leaves it: exc names the exception that reached
\* the caller ("none" if none did).
\* ------------------------------------------------------------------------
BRes(ok, S, exc, raised) == [ok |-> ok, S |-> S, exc |-> exc, raised |-> raised]

\* Python's int // int and int % int: the quotient is rounded down, the
\* remainder has the sign of the divisor.
FloorDiv(a, b) ==
    LET n == IF b > 0 THEN a ELSE -a
        d == IF b > 0 THEN b ELSE -b
    IN IF n >= 0 THEN n \div d ELSE -((-n + d - 1) \div d)

PyMod(a, b) == a - b * FloorDiv(a, b)

Value(v) == [exc |-> "none", v |-> v]
Raise(exc) == [exc |-> exc, v |-> 0]

\* _eval_arith on integers with the operators +, -, *, //, mod and the
\* unary -; the arguments are evaluated left to right before the operator
\* is looked at, and every other term raises ValueError.
RECURSIVE _eval_arith(_, _)
_eval_arith(cells, term0) ==
    LET term == deref(cells, term0)
    IN IF term.k = "int" THEN Value(term.value)
       ELSE IF term.k = "str" /\ Len(term.args) = 2
            THEN LET a == _eval_arith(cells, term.args[1])
                 IN IF a.exc # "none" THEN a
                    ELSE LET b == _eval_arith(cells, term.args[2])
                         IN IF b.exc # "none" THEN b
                            ELSE IF term.f = "+" THEN Value(a.v + b.v)
                            ELSE IF term.f = "-" THEN Value(a.v - b.v)
                            ELSE IF term.f = "*" THEN Value(a.v * b.v)
                            ELSE IF term.f = "//"
                                 THEN IF b.v = 0 THEN Raise("ZeroDivisionError")
                                      ELSE Value(FloorDiv(a.v, b.v))
                            ELSE IF term.f = "mod"
                                 THEN IF b.v = 0 THEN Raise("ZeroDivisionError")
                                      ELSE Value(PyMod(a.v, b.v))
                            ELSE Raise("ValueError")
       ELSE IF term.k = "str" /\ Len(term.args) = 1
            THEN LET a == _eval_arith(cells, term.args[1])
                 IN IF a.exc # "none" THEN a
                    ELSE IF term.f = "-" THEN Value(-a.v)
                    ELSE Raise("ValueError")
       ELSE Raise("ValueError")

\* is/2: except (ValueError, ZeroDivisionError, TypeError): return False
builtin_is(S, args) ==
    LET result == _eval_arith(S.cells, args[2])
    IN IF result.exc \in {"ValueError", "ZeroDivisionError", "TypeError"}
       THEN BRes(FALSE, S, "none", TRUE)
       ELSE IF result.exc # "none" THEN BRes(FALSE, S, result.exc, TRUE)
       ELSE LET r == unify(S, args[1], Integer(result.v), TRUE, FALSE)
            IN BRes(r.ok, r.S, "none", FALSE)

Comparators == {"=:=", "=\\=", "<", ">", "=<", ">="}

Compare(op, a, b) ==
    IF op = "=:=" THEN a = b
    ELSE IF op = "=\\=" THEN a # b
    ELSE IF op = "<" THEN a < b
    ELSE IF op = ">" THEN a > b
    ELSE IF op = "=<" THEN a <= b
    ELSE a >= b

\* builtin_arith_eq, _neq, builtin_lt, _gt, _le, _ge: the left side is
\* evaluated first; except ValueError: return False
builtin_compare(S, op, args) ==
    LET a == _eval_arith(S.cells, args[1])
        b == _eval_arith(S.cells, args[2])
        exc == IF a.exc # "none" THEN a.exc ELSE b.exc
    IN IF exc = "ValueError" THEN BRes(FALSE, S, "none", TRUE)
       ELSE IF exc # "none" THEN BRes(FALSE, S, exc, TRUE)
       ELSE BRes(Compare(op, a.v, b.v), S, "none", FALSE)

MaxBuiltinCalls == 3

\* The operands: small integers, an atom, and the variable X, unbound until
\* an is/2 binds it.
BLeaves == {Integer(0), Integer(1), Integer(2), Atom("foo"), Var(1)}
BSimple == {Integer(1), Var(1)}
BOps == {"+", "-", "*", "//", "mod", "foo"}
BExprs ==
    BLeaves
      \cup {Struct(op, <<a, b>>) : op \in BOps, a \in {Integer(2), Var(1)},
                                   b \in {Integer(0), Integer(1), Atom("foo")}}
      \cup {Struct("-", <<a>>) : a \in {Integer(1), Atom("foo")}}
      \cup {Struct("+", <<Struct("//", <<Integer(1), Integer(0)>>), Atom("foo")>>),
            Struct("+", <<Atom("foo"), Struct("mod", <<Integer(1), Integer(0)>>)>>),
            Struct("//", <<Integer(2), Struct("-", <<Integer(1), Integer(2)>>)>>)}

BInit ==
    /\ bs = [cells |-> <<NewCell("X", FALSE, 0)>>,
             trail |-> <<>>, wake |-> <<>>, recall |-> <<>>, ports |-> <<>>]
    /\ blast = [n |-> 0, op |-> "init", ok |-> TRUE, exc |-> "none", raised |-> FALSE]
    /\ UIdle
    /\ IIdle
    /\ WIdle

BPut(op, r) ==
    /\ bs' = r.S
    /\ blast' = [n |-> blast.n + 1, op |-> op, ok |-> r.ok, exc |-> r.exc,
                 raised |-> r.raised]

\* call_builtin("is", 2, exstate, andb, (lhs, expr))
IsCall ==
    /\ blast.n < MaxBuiltinCalls
    /\ \E lhs \in BSimple, e \in BExprs : BPut("is", builtin_is(bs, <<lhs, e>>))
    /\ UNCHANGED <<uvars, ivars, wvars>>

\* call_builtin(op, 2, exstate, andb, (e1, e2)) for a comparator
CompareCall ==
    /\ blast.n < MaxBuiltinCalls
    /\ \E op \in Comparators, e \in BExprs, l \in BSimple, left \in BOOLEAN :
           BPut(op, builtin_compare(bs, op, IF left THEN <<e, l>> ELSE <<l, e>>))
    /\ UNCHANGED <<uvars, ivars, wvars>>

BNext ==
    \/ IsCall
    \/ CompareCall

SpecB == BInit /\ [][BNext]_vars

\* C27: an arithmetic error raised while is/2 or a comparator evaluates its
\* operands makes the builtin answer false, and no exception reaches the
\* caller.
C27_ArithmeticErrorsFail ==
    blast.op \in Comparators \cup {"is"} =>
        /\ blast.exc = "none"
        /\ blast.raised => ~blast.ok

\* ------------------------------------------------------------------------
\* Ports (term.py Port, builtin.py open_port/2, send/2, send/3).  The store
\* holds the ports made so far: a port's _PortState is initial_stream,
\* stream_tail and closed; sent is the history of the messages for which
\* Port.send returned True.
\* ------------------------------------------------------------------------
PortTerm(p) == [k |-> "port", id |-> p]

\* Port(): the _PortState starts with one fresh unbound Var as both cells
NewPort(S) ==
    [S EXCEPT !.cells = Append(@, NewCell("_Stream", FALSE, 0)),
              !.ports = Append(@, [initial_stream |-> Len(S.cells) + 1,
                                   stream_tail |-> Len(S.cells) + 1,
                                   closed |-> FALSE, sent |-> <<>>])]

\* A close that sets the closed flag and leaves the tail unbound.
Port_do_close_flag_only(S, p) ==
    [S EXCEPT !.ports[p].closed = TRUE]

Port_do_close(S, p) ==
    IF S.ports[p].closed THEN S
    ELSE LET tail == deref(S.cells, Var(S.ports[p].stream_tail))
         IN IF tail.k = "var"
            THEN [S EXCEPT !.ports[p].closed = TRUE, !.cells[tail.id].binding = NIL]
            ELSE [S EXCEPT !.ports[p].closed = TRUE]

\* tail.binding = cons is a plain assignment: nothing is pushed on the trail
Port_send(S, p, message) ==
    IF S.ports[p].closed THEN Res(FALSE, S)
    ELSE LET tail == deref(S.cells, Var(S.ports[p].stream_tail))
             new_tail == Len(S.cells) + 1
         IN IF tail = NIL THEN Res(FALSE, [S EXCEPT !.ports[p].closed = TRUE])
            ELSE IF tail.k # "var" THEN Res(FALSE, S)
            ELSE Res(TRUE,
                     [S EXCEPT !.cells = Append([@ EXCEPT ![tail.id].binding =
                                                     Cons(message, Var(new_tail))],
                                                NewCell("_Stream", FALSE, 0)),
                               !.ports[p].stream_tail = new_tail,
                               !.ports[p].sent = Append(@, message)])

builtin_open_port(S, args) ==
    LET S1 == NewPort(S)
        p == Len(S.ports) + 1
        r1 == unify(S1, args[1], PortTerm(p), TRUE, FALSE)
    IN IF ~r1.ok THEN r1
       ELSE unify(r1.S, args[2], Var(S1.ports[p].initial_stream), TRUE, FALSE)

builtin_send_2(S, args) ==
    LET message == deref(S.cells, args[1])
        port == deref(S.cells, args[2])
    IN IF port.k # "port" THEN Res(FALSE, S)
       ELSE Port_send(S, port.id, message)

builtin_send_3(S, args) ==
    LET message == deref(S.cells, args[1])
        port == deref(S.cells, args[2])
    IN IF port.k # "port" THEN Res(FALSE, S)
       ELSE LET r == Port_send(S, port.id, message)
            IN IF ~r.ok THEN r
               ELSE unify(r.S, args[3], port, TRUE, FALSE)

MaxPorts == 1
MaxPortCalls == 6
Messages == {Atom("a"), Atom("b")}

\* The cells X, P and S of the caller; pos and saved are the last trail
\* position taken and the bindings of the cells at that moment; port is the
\* port the last call addressed (0 if none).
PInit ==
    /\ bs = [cells |-> <<NewCell("X", FALSE, 0), NewCell("P", FALSE, 0),
                         NewCell("S", FALSE, 0)>>,
             trail |-> <<>>, wake |-> <<>>, recall |-> <<>>, ports |-> <<>>]
    /\ blast = [n |-> 0, op |-> "init", ok |-> TRUE, port |-> 0, pos |-> 0,
                saved |-> <<None, None, None>>]
    /\ UIdle
    /\ IIdle
    /\ WIdle

PPut(op, r, port) ==
    /\ bs' = r.S
    /\ blast' = [blast EXCEPT !.n = @ + 1, !.op = op, !.ok = r.ok, !.port = port]

Addressed(t) ==
    IF deref(bs.cells, t).k = "port" THEN deref(bs.cells, t).id ELSE 0

\* call_builtin("open_port", 2, exstate, andb, (P, S))
OpenPort ==
    /\ blast.n < MaxPortCalls
    /\ Len(bs.ports) < MaxPorts
    /\ \E a \in {Var(2), Atom("foo")} :
           PPut("open_port", builtin_open_port(bs, <<a, Var(3)>>), Len(bs.ports) + 1)
    /\ UNCHANGED <<uvars, ivars, wvars>>

\* call_builtin("send", 2, exstate, andb, (message, port))
Send2 ==
    /\ blast.n < MaxPortCalls
    /\ \E m \in Messages, a \in {Var(2), Atom("foo")} :
           PPut("send", builtin_send_2(bs, <<m, a>>), Addressed(a))
    /\ UNCHANGED <<uvars, ivars, wvars>>

\* call_builtin("send", 3, exstate, andb, (message, port, port2))
Send3 ==
    /\ blast.n < MaxPortCalls
    /\ \E m \in Messages, a \in {Var(1), Atom("foo")} :
           PPut("send", builtin_send_3(bs, <<m, Var(2), a>>), Addressed(Var(2)))
    /\ UNCHANGED <<uvars, ivars, wvars>>

\* port.close(), or the finalizer of a port that is no longer referenced
ClosePort ==
    /\ blast.n < MaxPortCalls
    /\ \E p \in 1..Len(bs.ports) :
           PPut("close", Res(TRUE, Port_do_close(bs, p)), p)
    /\ UNCHANGED <<uvars, ivars, wvars>>

\* pos = exstate.trail_position()
PortTrailPosition ==
    /\ blast.n < MaxPortCalls
    /\ blast' = [blast EXCEPT !.n = @ + 1, !.op = "position", !.ok = TRUE, !.port = 0,
                              !.pos = trail_position(bs),
                              !.saved = [v \in 1..Len(bs.cells) |-> bs.cells[v].binding]]
    /\ UNCHANGED <<bs, uvars, ivars, wvars>>

\* exstate.undo_trail(pos)
PortUndoTrail ==
    /\ blast.n < MaxPortCalls
    /\ blast.op # "undo"
    /\ PPut("undo", Res(TRUE, undo_trail(bs, blast.pos)), 0)
    /\ UNCHANGED <<uvars, ivars, wvars>>

PNext ==
    \/ OpenPort
    \/ Send2
    \/ Send3
    \/ ClosePort
    \/ PortTrailPosition
    \/ PortUndoTrail

SpecP == PInit /\ [][PNext]_vars

\* The list read from a cell: its elements and how it ends.
RECURSIVE ReadStream(_, _)
ReadStream(cells, t) ==
    LET d == deref(cells, t)
    IN IF d.k = "cons"
       THEN LET rest == ReadStream(cells, d.tail)
            IN [msgs |-> <<d.head>> \o rest.msgs, end |-> rest.end]
       ELSE [msgs |-> <<>>,
             end |-> IF d.k = "var" THEN "unbound" ELSE IF d = NIL THEN "[]" ELSE "other"]

Stream(S, p) == ReadStream(S.cells, Var(S.ports[p].initial_stream))

\* C28: the stream read from a port's initial tail cell is the messages of
\* the successful sends in send order, ending in an unbound tail while the
\* port is open and in [] once it is closed; a send to a closed port fails,
\* and neither it nor a second close changes the stream.
C28_PortStream ==
    [][/\ \A p \in 1..Len(bs'.ports) :
              Stream(bs', p) = [msgs |-> bs'.ports[p].sent,
                                end |-> IF bs'.ports[p].closed THEN "[]" ELSE "unbound"]
       /\ \A p \in 1..Len(bs.ports) :
              bs.ports[p].closed =>
                  /\ Stream(bs', p) = Stream(bs, p)
                  /\ bs'.ports[p] = bs.ports[p]
                  /\ (blast'.op = "send" /\ blast'.port = p) => ~blast'.ok
                  /\ (blast'.op = "close" /\ blast'.port = p) => bs' = bs]_vars

\* Two messages were sent, the port was closed, and a later send to it failed.
C28_Witness ==
    /\ blast.op = "send" /\ blast.port = 1 /\ ~blast.ok
    /\ bs.ports[1].closed
    /\ Len(bs.ports[1].sent) = 2
    /\ bs.ports[1].sent[1] # bs.ports[1].sent[2]

\* C29: every cell write of a builtin is trailed, so that undoing the trail
\* to a position taken earlier gives every cell the binding it had when the
\* position was taken; the tail a send bound is unbound again.
C29_BuiltinWritesTrailed ==
    blast.op = "undo" =>
        \A v \in 1..Len(blast.saved) : bs.cells[v].binding = blast.saved[v]

\* ------------------------------------------------------------------------
\* Reflections (term.py Reflection, builtin.py reflective_call/3,
\* reflective_next/2).  A reflection holds the generator of a sub-interpreter
\* over akl_context.program, the current end of its stream and the exhausted
\* flag.  The program is one of facts with one argument: the generator is
\* the solutions not yet taken, one for each fact that agrees with the goal,
\* in declaration order; while it is suspended after a solution the goal's
\* variable is bound to that solution's value, and the binding is taken back
\* when it ends.  first and all are history: the stream argument
\* reflective_call was given and all the solutions of the goal.
\* ------------------------------------------------------------------------
ReflTerm(r) == [k |-> "refl", id |-> r]

RProgram == << Fact(P1("q", A("a"))), Fact(P1("q", A("b"))), Fact(P1("p", A("c"))) >>

\* Interpreter(program).solve(goal): bindings is Solution.bindings, bind the
\* value the goal's variable holds while the generator is suspended
SubSolve(cells, goal) ==
    IF goal.k = "atom"
    THEN IF goal = A("true") THEN << [bindings |-> <<>>, bind |-> None] >> ELSE <<>>
    ELSE LET arg == deref(cells, goal.args[1])
             cs == get_clauses(RProgram, goal.f, Len(goal.args))
             ms == SelectSeq(cs, LAMBDA c : arg.k = "var" \/ c.head.args[1] = arg)
         IN [j \in 1..Len(ms) |->
                IF arg.k = "var"
                THEN [bindings |-> << [name |-> cells[arg.id].name,
                                       value |-> ms[j].head.args[1]] >>,
                      bind |-> ms[j].head.args[1]]
                ELSE [bindings |-> <<>>, bind |-> None]]

GoalVar(cells, goal) ==
    IF goal.k = "str" /\ deref(cells, goal.args[1]).k = "var"
    THEN deref(cells, goal.args[1]).id ELSE 0

RECURSIVE make_list(_)
make_list(elements) ==
    IF elements = <<>> THEN NIL ELSE Cons(Head(elements), make_list(Tail(elements)))

\* Struct(Atom("solution"), (make_list([name = value, ...]),))
SolutionTerm(sol) ==
    P1("solution", make_list([j \in 1..Len(sol.bindings) |->
                                  P2("=", A(sol.bindings[j].name), sol.bindings[j].value)]))

\* new_tail = Var(); unify(refl.stream.deref(), Cons(term, new_tail), exstate);
\* refl.stream = new_tail
Emit(S, r, term) ==
    LET new_tail == Len(S.cells) + 1
        S1 == [S EXCEPT !.cells = Append(@, NewCell("_", FALSE, 0))]
        u == unify(S1, deref(S1.cells, S1.refls[r].stream), Cons(term, Var(new_tail)),
                   TRUE, FALSE)
    IN IF ~u.ok THEN u
       ELSE Res(TRUE, [u.S EXCEPT !.refls[r].stream = Var(new_tail)])

GenBind(S, r, value) ==
    IF S.refls[r].goalvar = 0 THEN S
    ELSE [S EXCEPT !.cells[S.refls[r].goalvar].binding = value]

_advance_reflection(S, r) ==
    IF S.refls[r].exhausted THEN Emit(S, r, A("fail"))
    ELSE IF S.refls[r].generator # <<>>
         THEN Emit([GenBind(S, r, Head(S.refls[r].generator).bind)
                        EXCEPT !.refls[r].generator = Tail(@)],
                   r, SolutionTerm(Head(S.refls[r].generator)))
         ELSE Emit([GenBind(S, r, None) EXCEPT !.refls[r].exhausted = TRUE], r, A("fail"))

builtin_reflective_call(S, args) ==
    LET refl_arg == deref(S.cells, args[1])
        goal == deref(S.cells, args[2])
        stream == deref(S.cells, args[3])
        r == Len(S.refls) + 1
    IN IF refl_arg.k # "var" THEN Res(FALSE, S)
       ELSE IF goal.k \notin {"atom", "str"} THEN Res(FALSE, S)
       ELSE LET S1 == [S EXCEPT !.refls = Append(@,
                          [generator |-> SubSolve(S.cells, goal),
                           goalvar |-> GoalVar(S.cells, goal),
                           stream |-> stream, exhausted |-> FALSE,
                           first |-> stream, all |-> SubSolve(S.cells, goal)])]
                u == unify(S1, args[1], ReflTerm(r), TRUE, FALSE)
            IN IF ~u.ok THEN u ELSE _advance_reflection(u.S, r)

builtin_reflective_next(S, args) ==
    LET refl == deref(S.cells, args[1])
    IN IF refl.k # "refl" THEN Res(FALSE, S)
       ELSE IF S.refls[refl.id].exhausted THEN Res(FALSE, S)
       ELSE LET a == _advance_reflection(S, refl.id)
            IN IF ~a.ok THEN a ELSE unify(a.S, args[2], refl, TRUE, FALSE)

MaxRefl == 2
MaxReflCalls == 6

\* The caller's cells for each reflection: R, S, the goal's X, and the cell
\* N that takes the second argument of reflective_next.
RCellR(i) == 4 * i - 3
RCellS(i) == 4 * i - 2
RCellX(i) == 4 * i - 1
RCellN(i) == 4 * i
RGoals(i) == {P1("q", Var(RCellX(i))), P1("p", Var(RCellX(i))), P1("q", A("b")),
              P1("q", A("c")), A("true"), A("fail")}

RInit ==
    /\ bs = [cells |-> [v \in 1..RCellN(MaxRefl) |->
                           NewCell(<<"R", "S", "X", "N">>[((v - 1) % 4) + 1], FALSE, 0)],
             trail |-> <<>>, wake |-> <<>>, recall |-> <<>>, refls |-> <<>>]
    /\ blast = [n |-> 0, op |-> "init", ok |-> TRUE, refl |-> 0, second |-> None]
    /\ UIdle
    /\ IIdle
    /\ WIdle

RPut(op, res, r, second) ==
    /\ bs' = res.S
    /\ blast' = [n |-> blast.n + 1, op |-> op, ok |-> res.ok, refl |-> r, second |-> second]

\* call_builtin("reflective_call", 3, exstate, andb, (R, Goal, S))
ReflectiveCall ==
    /\ blast.n < MaxReflCalls
    /\ Len(bs.refls) < MaxRefl
    /\ \E g \in RGoals(Len(bs.refls) + 1) :
           RPut("reflective_call",
                builtin_reflective_call(bs, <<Var(RCellR(Len(bs.refls) + 1)), g,
                                              Var(RCellS(Len(bs.refls) + 1))>>),
                Len(bs.refls) + 1, None)
    /\ UNCHANGED <<uvars, ivars, wvars>>

\* call_builtin("reflective_next", 2, exstate, andb, (R, R1)), R1 being the
\* reflection's cell N or R itself
ReflectiveNext ==
    /\ blast.n < MaxReflCalls
    /\ \E r \in 1..Len(bs.refls) : \E second \in {Var(RCellN(r)), Var(RCellR(r))} :
           RPut("reflective_next",
                builtin_reflective_next(bs, <<Var(RCellR(r)), second>>), r, second)
    /\ UNCHANGED <<uvars, ivars, wvars>>

RNext ==
    \/ ReflectiveCall
    \/ ReflectiveNext

SpecR == RInit /\ [][RNext]_vars

Emitted(S, r) == ReadStream(S.cells, S.refls[r].first).msgs

\* The k-th element a reflection owes its stream.
Expected(S, r, k) ==
    IF k <= Len(S.refls[r].all) THEN SolutionTerm(S.refls[r].all[k]) ELSE A("fail")

\* C30: every reflective_call and every reflective_next on a reflection
\* handle succeeds and puts exactly one new element at the end of the
\* reflection's stream: solution(Bindings) for the next solution of the
\* goal, in solution order, or fail when no solution is left; after
\* reflective_next its second argument is the handle.
C30_ReflectionEmitsOne ==
    [][/\ blast'.op = "reflective_call" =>
              /\ blast'.ok
              /\ Emitted(bs', blast'.refl) = <<Expected(bs', blast'.refl, 1)>>
       /\ blast'.op = "reflective_next" =>
              /\ blast'.ok
              /\ Emitted(bs', blast'.refl) =
                     Append(Emitted(bs, blast'.refl),
                            Expected(bs, blast'.refl, Len(Emitted(bs, blast'.refl)) + 1))
              /\ deref(bs'.cells, blast'.second) = ReflTerm(blast'.refl)]_vars

\* ------------------------------------------------------------------------
\* Contexts of an ExState (engine.py push_context, restore_context) with the
\* queue and trail operations that may run between a push and a restore.
\* blast.saved holds, for every pushed context, the queues and the trail as
\* they were at the push.
\* ------------------------------------------------------------------------
push_context(S) ==
    [S EXCEPT !.contexts = Append(@, [task_pos |-> Len(S.tasks),
                                      recall_pos |-> Len(S.recall),
                                      wake_pos |-> Len(S.wake),
                                      trail_pos |-> Len(S.trail)])]

\* while len(queue) > pos: queue.pop()
Truncate(q, pos) == IF Len(q) > pos THEN SubSeq(q, 1, pos) ELSE q

restore_context(S, ctx) ==
    undo_trail([S EXCEPT !.tasks = Truncate(@, ctx.task_pos),
                         !.recall = Truncate(@, ctx.recall_pos),
                         !.wake = Truncate(@, ctx.wake_pos)], ctx.trail_pos)

\* next_task: tasks.popleft()
next_task(S) == [S EXCEPT !.tasks = Tail(@)]

MaxContextCalls == 5
MaxContexts == 1
CBoxes == {1, 2}

CInit ==
    /\ bs = [cells |-> <<NewCell("X", FALSE, 0)>>, trail |-> <<>>, wake |-> <<>>,
             recall |-> <<>>, tasks |-> <<>>, contexts |-> <<>>]
    /\ blast = [n |-> 0, op |-> "init", saved |-> <<>>]
    /\ UIdle
    /\ IIdle
    /\ WIdle

CPut(op, S) ==
    /\ bs' = S
    /\ blast' = [blast EXCEPT !.n = @ + 1, !.op = op]

\* exstate.queue_promote(andb), queue_split(andb), queue_wake(andb),
\* queue_recall(chb)
Enqueue ==
    /\ blast.n < MaxContextCalls
    /\ \E b \in CBoxes :
           \/ CPut("enqueue", queue_promote(bs, b))
           \/ CPut("enqueue", queue_split(bs, b))
           \/ CPut("enqueue", [bs EXCEPT !.wake = Append(@, b)])
           \/ CPut("enqueue", [bs EXCEPT !.recall = Append(@, b)])
    /\ UNCHANGED <<uvars, ivars, wvars>>

\* exstate.next_task() on a queue that is not empty
NextTask ==
    /\ blast.n < MaxContextCalls
    /\ bs.tasks # <<>>
    /\ bs' = next_task(bs)
    /\ blast' = [blast EXCEPT !.n = @ + 1, !.op = "dequeue"]
    /\ UNCHANGED <<uvars, ivars, wvars>>

\* unify(X, t, exstate): a trailed binding
TrailedBinding ==
    /\ blast.n < MaxContextCalls
    /\ \E t \in {Atom("a"), Atom("b")} : CPut("bind", unify(bs, Var(1), t, TRUE, FALSE).S)
    /\ UNCHANGED <<uvars, ivars, wvars>>

\* exstate.push_context()
PushContext ==
    /\ blast.n < MaxContextCalls
    /\ Len(bs.contexts) < MaxContexts
    /\ bs' = push_context(bs)
    /\ blast' = [blast EXCEPT !.n = @ + 1, !.op = "push",
                              !.saved = Append(@, [tasks |-> bs.tasks, wake |-> bs.wake,
                                                   recall |-> bs.recall, trail |-> bs.trail,
                                                   cells |-> bs.cells])]
    /\ UNCHANGED <<uvars, ivars, wvars>>

\* exstate.restore_context(exstate.contexts[-1])
RestoreContext ==
    /\ blast.n < MaxContextCalls
    /\ bs.contexts # <<>>
    /\ blast.op # "restore"
    /\ CPut("restore", restore_context(bs, bs.contexts[Len(bs.contexts)]))
    /\ UNCHANGED <<uvars, ivars, wvars>>

CNext ==
    \/ Enqueue
    \/ NextTask
    \/ TrailedBinding
    \/ PushContext
    \/ RestoreContext

SpecC == CInit /\ [][CNext]_vars

Pushed_ == blast.saved[Len(blast.saved)]

CopiedVar(e, v) == IF v \in DOMAIN e.var_map THEN e.var_map[v] ELSE v

C35_CopiesSuspended ==
    \A i \in 1..Len(wh.slog) :
        \A p \in wh.slog[i].suspended :
            <<CopiedVar(wh.slog[i], p[1]), wh.slog[i].andbox_map[p[2]]>> \in wh.slog[i].registered

C35_Witness ==
    \E i \in 1..Len(wh.slog) : wh.slog[i].suspended # {}

\* C36: the promotion of the copied candidate that ends a split, with the
\* discharge of its deferred pairs, changes the binding of no variable that
\* the original mother's subtree refers to and of no query variable.
C36_PromotedCopyLeavesOriginal ==
    \A i \in 1..Len(wh.slog) : wh.slog[i].ref_changed = {}

\* A split whose mother refers to a variable that is not local to it and
\* whose copied candidate was promoted with a binding of a copied variable.
C36_Witness ==
    \E i \in 1..Len(wh.slog) :
        /\ wh.slog[i].orig_vars \ wh.slog[i].local_vars # {}
        /\ \E v \in wh.slog[i].local_vars : wh.cells[wh.slog[i].var_map[v]].binding # None

\* C37: when the worker has halted, every and-box that _expand_predicate
\* created as an alternative of a predicate call has had its first goal,
\* the unification of the call with the clause head, taken from its goal
\* list and executed, even where an earlier alternative of the same
\* choice-box failed and was unlinked.
Attempted(H, a) ==
    \E j \in 1..Len(H.qlog) :
        /\ H.qlog[j].t = "goal"
        /\ H.qlog[j].andb = a
        /\ IsStr(H.qlog[j].popped, "=", 2)

C37_AlternativesAttempted ==
    wret.done => \A i \in 1..Len(wh.elog) : \A a \in wh.elog[i].created : Attempted(wh, a)

\* A halted worker with a call of three alternatives whose first failed
\* and was unlinked.
C37_Witness ==
    /\ wret.done
    /\ \E i \in 1..Len(wh.elog) :
           /\ Cardinality(wh.elog[i].created) = 3
           /\ \E a \in wh.elog[i].created :
                  /\ a - 1 \notin wh.elog[i].created
                  /\ is_dead(wh, a)
                  /\ wh.ab[a].father = 0

\* C38: a clause with a pruning guard that commits prunes the sibling
\* clauses only and every solution of its body is yielded: with
\* p(X) :- true | q(X) and the facts q(a), q(b), the finished goal p(X)
\* has the solutions X = a and X = b.
C38_CommitKeepsBodySolutions ==
    (IFinished /\ igoal = GoalCommitBody /\ IGuardKind \in PRUNING_GUARDS) =>
        isols = <<Sol("X", A("a")), Sol("X", A("b"))>>

\* C39: after every step of the worker (expansion, failure propagation,
\* pruning, promotion, split) the tree reachable from the root choice-box is
\* well linked: fathers agree with the lists the boxes are in, and the prev
\* and next links of siblings are inverse to each other with no prev at a
\* first sibling.
C39_TreeWellLinked == wh.linked /\ WellLinked(wh)

\* A halted worker whose tree went through a failed alternative taken out
\* of a choice-box, a promotion into a parent and a split.
C39_Witness ==
    /\ wret.done
    /\ wh.slog # <<>>
    /\ \E i \in 1..Len(wh.plog) : ~wh.plog[i].root
    /\ \E a \in 1..Len(wh.ab) :
           /\ is_dead(wh, a)
           /\ wh.ab[a].father = 0
           /\ \A i \in 1..Len(wh.slog) : wh.slog[i].candidate # a
           /\ \A i \in 1..Len(wh.plog) : wh.plog[i].andb # a

\* A round of the loop is ready: one of the four branches of _run applies
RoundReady ==
    \/ wret.rounds < MaxRounds /\ wh.wake # <<>>
    \/ wret.rounds < MaxRounds /\ wh.wake = <<>> /\ wh.recall = <<>> /\ wh.tasks # <<>>
    \/ /\ wret.rounds < MaxRounds
       /\ wh.wake = <<>> /\ wh.recall = <<>> /\ wh.tasks = <<>>
       /\ wh.root # 0
       /\ SplitCandidate(wh, wh.cb[wh.root].tried) # 0
    \/ /\ wh.wake = <<>> /\ wh.recall = <<>> /\ wh.tasks = <<>>
       /\ wh.root = 0 \/ SplitCandidate(wh, wh.cb[wh.root].tried) = 0

\* C40: for the programs and queries here, whose search trees are finite,
\* solve terminates: while it has not returned a round of the loop is ready
\* within the rounds allowed, and the loop reaches its halt branch.
C40_SolveTerminates ==
    /\ [](~wret.done => RoundReady)
    /\ <>wret.done

\* A halted run that took rounds for tasks, for the wake queue and for
\* splits.
C40_Witness ==
    /\ wret.done
    /\ wret.rounds >= 4
    /\ Len(wh.slog) >= 2
    /\ wh.wdeq # <<>>

====
